---- MODULE Spec2Model ----
(***************************************************************************)
(* Event-sourcing backbone of agentWeb: the FactStore (append-only event   *)
(* log kept in Redis keys, sets and one sorted set), the EventBroker       *)
(* (write-ahead publish, Redis pub/sub hand-off, one listener thread that  *)
(* fans messages out to the registered callbacks) and the ViewMaterializer *)
(* (projections kept in Redis hashes).                                     *)
(*                                                                         *)
(* Redis itself is taken to work as documented: single commands and        *)
(* MULTI/EXEC pipelines are atomic, a pub/sub connection receives the      *)
(* messages of its channels in the order of the PUBLISH commands, and no   *)
(* command fails for lack of a connection.                                 *)
(*                                                                         *)
(* Three specifications share the definitions:                             *)
(*   SpecStore  FactStore.append called by two threads at once             *)
(*   Spec       EventBroker: publish, subscribe, unsubscribe, delivery     *)
(*   SpecView   ViewMaterializer handlers applied to delivered events      *)
(***************************************************************************)
EXTENDS Integers, Sequences, FiniteSets, TLC

VARIABLES
    eventStore,     \* Redis keys event:<id>          id -> stored dictionary
    kindIndex,      \* Redis sets events:kind:<kind>  kind -> set of ids
    timeIndex,      \* Redis zset events:by_time      id -> score
    projectIndex,   \* Redis sets events:project:<p>  project -> set of ids
    appendOrder,    \* history: the ids in the order of their first ZADD into timeIndex
    subscribers,    \* EventBroker.subscribers        kind -> list of callbacks
    pubsubChannels, \* channels the pubsub connection is subscribed to
    running,        \* EventBroker.running (listener thread started)
    pc,             \* per thread: position inside append / publish
    arg,            \* per thread: the event handed to append / publish
    exists,         \* per thread: the local "exists" of FactStore.append
    stored,         \* per thread: the value FactStore.append returned
    ret,            \* per thread: the value the last call returned
    channel,        \* messages Redis has sent to the pubsub connection, oldest first
    cur,            \* the fan-out in progress in _handle_message (<<>> when none)
    stack,          \* callbacks entered and not yet returned, innermost last
    lastSeq,        \* history: per kind, the hand-off number of the last message a
                    \* callback was invoked with
    resubscribed,   \* history: the <<kind, callback>> last subscribed while registered
    nPublish,       \* history: number of publish calls made so far
    nHandOff,       \* history: number of messages handed to Redis so far
    nAppend,        \* history: number of direct append calls made so far
    projectHashes,  \* Redis hashes project:<id>      (view database)
    projectsSet,    \* Redis set projects
    taskHashes,     \* Redis hashes task:<id>
    projectTasks,   \* Redis sets project:<id>:tasks  project -> set of task ids
    tasksSet,       \* Redis set tasks
    lastApplied,    \* history: the event the projector handled last (<<>> when none)
    createdIds,     \* history: <<kind, id>> of the creation facts the projector applied
    dependencyHashes, \* Redis hashes dependency:<source>:<target>
    taskDependencies, \* Redis sets task:<id>:dependencies
    taskDependents,   \* Redis sets task:<id>:dependents
    insightHashes,  \* Redis hashes insight:<insightId>
    projectInsights,\* Redis sets project:<id>:insights
    insightsByTime, \* Redis zset insights:by_time    insightId -> score
    clockMs,        \* the projector's clock, int(time.time() * 1000)
    nInsights,      \* history: number of InsightRaised facts the projector applied
    project_tasks,  \* ProgressAgent.project_tasks    project -> (task -> status)
    relation_dependencies, \* RelationAgent.task_dependencies  task -> set of tasks
    project_progress,      \* InsightAgent.project_progress     project -> progress
    insight_dependencies,  \* InsightAgent.task_dependencies    task -> set of tasks
    insights,       \* InsightAgent.insights          set of dedup keys
    outbox,         \* the facts the last agent invocation handed to broker.publish
    nextId,         \* the number of facts constructed so far (ids are fresh)
    handled,        \* history: the fact an agent handled last (<<>> when none)
    emitted,        \* history: bag of the dedup keys of the InsightRaised facts published
    queue,          \* system: facts published and not yet fanned out, oldest first
    fanout,         \* system: the fan-out in progress, its fact and the next callback
    externals,      \* history: the ids of the external facts published so far, in order
    is_initialized, \* BaseAgent.is_initialized of the agent whose handler is cb1
    is_running,     \* BaseAgent.is_running of that agent
    agentPc,        \* the main thread's position inside that agent's start or stop
    lifecycle,      \* history: the lifecycle state the calls made so far led to
    rebuild,        \* <<>> while the projector follows the live delivery; afterwards
                    \* the live projection as it was and the number of facts replayed
    latest,         \* the last get_latest call: its limit and the ids it returned
    fact,           \* an Event object a caller holds, beside the values it was built from
    bridge,         \* process_chat_analysis_data in progress: the item it handled last
                    \* with the projection it read, and the tasks still to handle
    search          \* a graph search of an agent in progress: its call stack, its
                    \* visited set and the nodes it expanded so far, in order

storeVars    == <<eventStore, kindIndex, timeIndex, projectIndex, appendOrder>>
registryVars == <<subscribers, pubsubChannels, running>>
callVars     == <<pc, arg, exists, stored, ret>>
listenerVars == <<channel, cur, stack>>
historyVars  == <<lastSeq, resubscribed, nPublish, nHandOff, nAppend>>
brokerVars   == <<registryVars, callVars, listenerVars, historyVars>>
projectVars  == <<projectHashes, projectsSet>>
taskVars     == <<taskHashes, projectTasks, tasksSet>>
dependencyVars == <<dependencyHashes, taskDependencies, taskDependents>>
insightVars  == <<insightHashes, projectInsights, insightsByTime>>
viewHistory  == <<lastApplied, createdIds, nInsights>>
viewVars     == <<projectVars, taskVars, dependencyVars, insightVars, clockMs,
                  viewHistory>>
agentVars    == <<project_tasks, relation_dependencies, project_progress,
                  insight_dependencies, insights, outbox, nextId>>
agentHistory == <<handled, emitted>>
systemVars   == <<queue, fanout, externals, rebuild>>
lifecycleVars == <<is_initialized, is_running, agentPc, lifecycle>>
clientVars   == <<latest, fact, bridge, search>>
outsideBroker == <<viewVars, agentVars, agentHistory, systemVars, lifecycleVars, clientVars>>
outsideView  == <<storeVars, brokerVars, agentVars, agentHistory, systemVars,
                  lifecycleVars, clientVars>>
vars == <<storeVars, brokerVars, viewVars, agentVars, agentHistory, systemVars,
          lifecycleVars, clientVars>>

-----------------------------------------------------------------------------
(* Bounds and the small universe of events                                  *)

MaxPublish == 2
MaxAppend  == 3
MaxClock   == 2
MaxInsights == 3
MaxFacts   == 8
MaxExternal == 4

Threads   == {"main", "listener"}
Callbacks == {"cb1", "cb2"}
Kinds     == {"TaskCreated", "DependencyAdded"}
EventIds  == {"e1", "e2"}
Payloads  == {"a"}
Projects  == {"p1"}

\* The subscribe calls made: cb1 for both kinds, cb2 for TaskCreated
Subscriptions ==
    {<<"TaskCreated", "cb1">>, <<"TaskCreated", "cb2">>, <<"DependencyAdded", "cb1">>}

\* EventFactory.create_task_created / create_dependency_added: the subject per kind
SubjectOf(kind) ==
    IF kind = "TaskCreated"
    THEN [taskId |-> "t1", projectId |-> "p1"]
    ELSE [sourceTaskId |-> "t1", targetTaskId |-> "t2"]

GenerateSignatureNoPayload(e) ==
    <<e.caused_by, e.id, e.kind, "", e.source, e.subject, e.ts>>

\* Event._generate_signature: sha256 over the key-sorted JSON of the seven
\* fields; the digest is taken to be collision free, so it is modelled by the
\* tuple of the values it covers.
GenerateSignature(e) ==
    <<e.caused_by, e.id, e.kind, e.payload, e.source, e.subject, e.ts>>

\* Event.__init__
NewEvent(id, ts, source, kind, subject, payload, causedBy) ==
    LET e == [id |-> id, ts |-> ts, source |-> source, kind |-> kind,
              subject |-> subject, payload |-> payload, caused_by |-> causedBy]
    IN [id |-> e.id, ts |-> e.ts, source |-> e.source, kind |-> e.kind,
        subject |-> e.subject, payload |-> e.payload, caused_by |-> e.caused_by,
        sig |-> GenerateSignature(e)]

VerifyIntegrityAlways(e) == TRUE

\* Event.verify_integrity
VerifyIntegrity(e) == e.sig = GenerateSignature(e)

\* Event.to_dict
ToDict(e) ==
    [id |-> e.id, ts |-> e.ts, source |-> e.source, kind |-> e.kind,
     subject |-> e.subject, payload |-> e.payload, caused_by |-> e.caused_by,
     sig |-> e.sig]

\* Event.from_dict: the constructor replaces a falsy id or timestamp, then the
\* stored signature overrides the generated one.
FromDict(d) ==
    [NewEvent(IF d.id = "" THEN "fresh" ELSE d.id,
              IF d.ts = 0 THEN 1 ELSE d.ts,
              d.source, d.kind, d.subject, d.payload, d.caused_by)
     EXCEPT !.sig = d.sig]

\* Events as an outside producer constructs them on the main thread
ExternalEvents ==
    {NewEvent(i, 1, "external", k, SubjectOf(k), p, "none") :
        i \in EventIds, k \in Kinds, p \in Payloads}

\* Events a callback constructs on the listener thread (as RelationAgent
\* does on TaskCreated)
DerivedEvents ==
    {NewEvent(i, 1, "agent", "DependencyAdded", SubjectOf("DependencyAdded"), p, "e1") :
        i \in EventIds, p \in Payloads}

\* Events one of whose fields was changed after construction
TamperedEvents ==
    {[e EXCEPT !.payload = "x"] : e \in {g \in ExternalEvents : g.id = "e1"}}

InputEvents(t) ==
    IF t = "main" THEN ExternalEvents \cup TamperedEvents ELSE DerivedEvents

AllEvents == ExternalEvents \cup TamperedEvents \cup DerivedEvents

-----------------------------------------------------------------------------
(* FactStore                                                                *)

\* FactStore.get_by_id
GetById(store, id) ==
    IF id \in DOMAIN store THEN <<FromDict(store[id])>> ELSE <<>>

ExistsNever(store, id) == FALSE

\* FactStore.append, pipe.exists(event_key).execute()[0]
Exists(store, id) == id \in DOMAIN store

AddTo(index, key, id) == [index EXCEPT ![key] = @ \cup {id}]

ProjectIndexSkipped(index, e) == index

\* FactStore.append, the project index write
ProjectIndexed(index, e) ==
    IF "projectId" \in DOMAIN e.subject
    THEN AddTo(index, e.subject.projectId, e.id)
    ELSE index

\* FactStore.append, first part: integrity check, then the EXISTS command.
\* The facts it does not store leave append here.
AppendCheck(t, e) ==
    /\ arg' = [arg EXCEPT ![t] = <<e>>]
    /\ IF ~VerifyIntegrity(e)
       THEN /\ stored' = [stored EXCEPT ![t] = FALSE]
            /\ exists' = exists
            /\ pc' = [pc EXCEPT ![t] = "appended"]
       ELSE IF Exists(eventStore, e.id)
       THEN /\ stored' = [stored EXCEPT ![t] = TRUE]
            /\ exists' = [exists EXCEPT ![t] = TRUE]
            /\ pc' = [pc EXCEPT ![t] = "appended"]
       ELSE /\ stored' = stored
            /\ exists' = exists
            /\ pc' = [pc EXCEPT ![t] = "checked"]
    /\ UNCHANGED storeVars

\* FactStore.append, second part: SET, SADD, ZADD and SADD queued on the
\* pipeline and run by one EXEC.
AppendExecute(t) ==
    /\ pc[t] = "checked"
    /\ LET e == arg[t][1] IN
        /\ eventStore' = [i \in DOMAIN eventStore \cup {e.id} |->
                            IF i = e.id THEN ToDict(e) ELSE eventStore[i]]
        /\ kindIndex' = AddTo(kindIndex, e.kind, e.id)
        /\ timeIndex' = [i \in DOMAIN timeIndex \cup {e.id} |->
                            IF i = e.id THEN e.ts ELSE timeIndex[i]]
        /\ projectIndex' = ProjectIndexed(projectIndex, e)
        /\ appendOrder' = IF e.id \in DOMAIN timeIndex
                           THEN appendOrder
                           ELSE Append(appendOrder, e.id)
    /\ stored' = [stored EXCEPT ![t] = TRUE]
    /\ pc' = [pc EXCEPT ![t] = "appended"]
    /\ UNCHANGED <<registryVars, arg, exists, ret, listenerVars, historyVars, outsideBroker>>

\* A thread calls FactStore.append itself.
AppendCall(t, e) ==
    /\ pc[t] = "idle"
    /\ nAppend < MaxAppend
    /\ AppendCheck(t, e)
    /\ nAppend' = nAppend + 1
    /\ ret' = [ret EXCEPT ![t] = "none"]
    /\ UNCHANGED <<registryVars, listenerVars, lastSeq, resubscribed, nPublish,
                   nHandOff, outsideBroker>>

\* FactStore.append returns to that thread.
AppendReturn(t) ==
    /\ pc[t] = "appended"
    /\ ret' = [ret EXCEPT ![t] = IF stored[t] THEN "true" ELSE "false"]
    /\ pc' = [pc EXCEPT ![t] = "idle"]
    /\ arg' = [arg EXCEPT ![t] = <<>>]
    /\ exists' = [exists EXCEPT ![t] = FALSE]
    /\ stored' = [stored EXCEPT ![t] = FALSE]
    /\ UNCHANGED <<storeVars, registryVars, listenerVars, historyVars, outsideBroker>>

-----------------------------------------------------------------------------
(* EventBroker                                                              *)

Range(seq) == {seq[i] : i \in 1..Len(seq)}

RegisterAgain(list, cb) == Append(list, cb)

\* EventBroker.subscribe: "Add callback if not already subscribed"
Register(list, cb) == IF cb \in Range(list) THEN list ELSE Append(list, cb)

EnqueueFirst(ch, m) == <<m>> \o ch

\* EventBroker.publish, self.client.publish(channel, ...): Redis forwards the
\* message to the pubsub connection behind those already sent.
Enqueue(ch, m) == Append(ch, m)

AppendFailedIgnored(s) == FALSE

\* EventBroker.publish: "if not stored: ... return False"
AppendFailed(s) == ~s

\* The message as it travels: the JSON of to_dict, with the number of its
\* hand-off noted beside it.
Message(e) == [data |-> ToDict(e), seq |-> nHandOff + 1]

\* A publish that runs the callbacks of the kind itself instead of leaving
\* them to the listener thread.
HandOffInline(e) ==
    /\ channel' = channel
    /\ stack' = stack \o
          [i \in 1..Len(subscribers[e.kind]) |->
               [cb |-> subscribers[e.kind][i], event |-> e]]

\* EventBroker.publish, the hand-off: PUBLISH on the channel of the kind.
\* Redis keeps a message only for connections subscribed to the channel;
\* no callback runs here.
HandOff(e) ==
    /\ channel' = IF e.kind \in pubsubChannels
                  THEN Enqueue(channel, Message(e))
                  ELSE channel
    /\ stack' = stack

\* EventBroker.publish up to the EXISTS command of FactStore.append.  The
\* main thread publishes whenever it is not inside another call; the listener
\* thread publishes from inside the callback it is running.
PublishCall(t, e) ==
    /\ pc[t] = "idle"
    /\ nPublish < MaxPublish
    /\ t = "listener" => stack # <<>>
    /\ AppendCheck(t, e)
    /\ nPublish' = nPublish + 1
    /\ ret' = [ret EXCEPT ![t] = "none"]
    /\ UNCHANGED <<registryVars, listenerVars, lastSeq, resubscribed, nHandOff,
                   nAppend, outsideBroker>>

\* EventBroker.publish after FactStore.append has returned
PublishHandOff(t) ==
    /\ pc[t] = "appended"
    /\ IF AppendFailed(stored[t])
       THEN /\ ret' = [ret EXCEPT ![t] = "false"]
            /\ UNCHANGED <<channel, stack, nHandOff>>
       ELSE /\ HandOff(arg[t][1])
            /\ nHandOff' = nHandOff + 1
            /\ ret' = [ret EXCEPT ![t] = "true"]
    /\ pc' = [pc EXCEPT ![t] = "idle"]
    /\ arg' = [arg EXCEPT ![t] = <<>>]
    /\ exists' = [exists EXCEPT ![t] = FALSE]
    /\ stored' = [stored EXCEPT ![t] = FALSE]
    /\ UNCHANGED <<storeVars, registryVars, cur, lastSeq, resubscribed, nPublish,
                   nAppend, outsideBroker>>

\* EventBroker.subscribe, called on the main thread
Subscribe(kind, cb) ==
    /\ pc["main"] = "idle"
    /\ subscribers' = [subscribers EXCEPT ![kind] = Register(@, cb)]
    /\ pubsubChannels' = pubsubChannels \cup {kind}
    /\ running' = TRUE
    /\ resubscribed' = IF cb \in Range(subscribers[kind])
                       THEN <<kind, cb>>
                       ELSE resubscribed
    /\ ret' = [ret EXCEPT !["main"] = "none"]
    /\ UNCHANGED <<storeVars, pc, arg, exists, stored, listenerVars, lastSeq,
                   nPublish, nHandOff, nAppend, outsideBroker>>

\* EventBroker.unsubscribe, called on the main thread; cbs is the callback to
\* remove, or every callback of the kind when none is given.  The fan-out in
\* progress over the same list is marked as disturbed.
Unsubscribe(kind, cbs) ==
    /\ pc["main"] = "idle"
    /\ subscribers[kind] # <<>>
    /\ LET left == SelectSeq(subscribers[kind], LAMBDA c : c \notin cbs) IN
        /\ subscribers' = [subscribers EXCEPT ![kind] = left]
        /\ pubsubChannels' = IF left = <<>> THEN pubsubChannels \ {kind}
                             ELSE pubsubChannels
        /\ cur' = IF cur # <<>> /\ cur[1].event.kind = kind /\ left # subscribers[kind]
                  THEN <<[cur[1] EXCEPT !.disturbed = TRUE]>>
                  ELSE cur
    /\ resubscribed' = IF resubscribed # <<>> /\ resubscribed[1] = kind
                          /\ resubscribed[2] \in cbs
                       THEN <<>>
                       ELSE resubscribed
    /\ ret' = [ret EXCEPT !["main"] = "none"]
    /\ UNCHANGED <<storeVars, running, pc, arg, exists, stored, channel, stack,
                   lastSeq, nPublish, nHandOff, nAppend, outsideBroker>>

\* The listener thread (pubsub.run_in_thread) takes the next message and
\* enters EventBroker._handle_message: decode, Event.from_dict.
HandleMessageBegin ==
    /\ running
    /\ cur = <<>>
    /\ stack = <<>>
    /\ channel # <<>>
    /\ cur' = <<[event |-> FromDict(Head(channel).data), seq |-> Head(channel).seq,
                 idx |-> 0, called |-> <<>>, raised |-> FALSE, disturbed |-> FALSE]>>
    /\ channel' = Tail(channel)
    /\ UNCHANGED <<storeVars, registryVars, callVars, stack, historyVars, outsideBroker>>

\* _handle_message, "for callback in self.subscribers[channel]": the list
\* iterator yields the element at its index in the list as it is now.
CallbackEnter ==
    /\ cur # <<>>
    /\ stack = <<>>
    /\ cur[1].idx < Len(subscribers[cur[1].event.kind])
    /\ LET cb == subscribers[cur[1].event.kind][cur[1].idx + 1] IN
        /\ stack' = <<[cb |-> cb, event |-> cur[1].event]>>
        /\ cur' = <<[cur[1] EXCEPT !.idx = @ + 1, !.called = Append(@, cb)]>>
    /\ UNCHANGED <<storeVars, registryVars, callVars, channel, historyVars, outsideBroker>>

AfterCallbackAbort(c, raised) ==
    IF raised THEN <<>> ELSE c

\* _handle_message, the try/except around callback(event): an exception is
\* printed and the loop goes on with the next callback.
AfterCallback(c, raised) ==
    <<[c[1] EXCEPT !.raised = @ \/ raised]>>

\* The callback returns, or raises.
CallbackReturn(raised) ==
    /\ stack # <<>>
    /\ pc["listener"] = "idle"
    /\ stack' = SubSeq(stack, 1, Len(stack) - 1)
    /\ cur' = AfterCallback(cur, raised)
    /\ lastSeq' = [lastSeq EXCEPT ![stack[Len(stack)].event.kind] = cur[1].seq]
    /\ ret' = [ret EXCEPT !["listener"] = "none"]
    /\ UNCHANGED <<storeVars, registryVars, pc, arg, exists, stored, channel,
                   resubscribed, nPublish, nHandOff, nAppend, outsideBroker>>

\* _handle_message returns once the iterator is exhausted.
HandleMessageEnd ==
    /\ cur # <<>>
    /\ stack = <<>>
    /\ cur[1].idx >= Len(subscribers[cur[1].event.kind])
    /\ cur' = <<>>
    /\ UNCHANGED <<storeVars, registryVars, callVars, channel, stack, historyVars,
                   outsideBroker>>

-----------------------------------------------------------------------------
(* ViewMaterializer                                                         *)

None == "None"
Now  == "now"

ViewProjects == {"p1", "p2"}
ViewTasks    == {"t1"}

EmptyHash == [f \in {} |-> ""]

\* dict.get(key, default)
Get(m, key, default) == IF key \in DOMAIN m THEN m[key] ELSE default

\* Python truthiness of the values met here
Truthy(v) == v # None /\ v # ""

\* redis hset(name, mapping=...): sets the given fields and keeps the others
HSet(h, mapping) ==
    [f \in DOMAIN h \cup DOMAIN mapping |->
        IF f \in DOMAIN mapping THEN mapping[f] ELSE h[f]]

\* redis-py refuses a None value (DataError) before the command is sent
Accepts(mapping) == \A f \in DOMAIN mapping : mapping[f] # None

\* hgetall of a key that may not exist, for the hashes kept with a growing domain
HGetAll(hashes, key) == IF key \in DOMAIN hashes THEN hashes[key] ELSE EmptyHash

\* the hashes after hset on one key
HPut(hashes, key, mapping) ==
    [k \in DOMAIN hashes \cup {key} |->
        IF k = key THEN HSet(HGetAll(hashes, key), mapping) ELSE hashes[k]]

\* (completed / total) * 100 as ProgressAgent computes it; the float is kept
\* exact as the fraction num / den
Percent(completed, total) == [num |-> 100 * completed, den |-> total]

\* k <= p, p < k and p <= k for a progress value p and an integer k
AtLeast(p, k) == p.num >= k * p.den
Below(p, k) == p.num < k * p.den
AtMost(p, k) == p.num <= k * p.den

\* str() of a Python float, as redis-py encodes it and as {progress:.1f} shows
\* it when it is whole (75.0); other values keep the fraction
FloatRepr(p) ==
    IF p.num % p.den = 0
    THEN ToString(p.num \div p.den) \o ".0"
    ELSE ToString(p.num) \o "/" \o ToString(p.den)

\* The events the projector is handed, shaped as EventFactory shapes them; a
\* ProjectCreated may lack its projectId.
ProjectCreatedEvents ==
    {NewEvent("e1", 1, "external", "ProjectCreated", subj,
              [name |-> n, description |-> "", createdAt |-> "d1"], "none") :
        subj \in {[projectId |-> q] : q \in ViewProjects} \cup {EmptyHash},
        n \in {"A", "B"}}

ProjectUpdatedEvents ==
    {NewEvent("e1", 1, "external", "ProjectUpdated", [projectId |-> q],
              [updates |-> u, updatedAt |-> "d2"], "none") :
        q \in {"p1"}, u \in {[status |-> "completed"], [name |-> "C"]}}

TaskCreatedEvents ==
    {NewEvent("e1", 1, "external", "TaskCreated", [taskId |-> t, projectId |-> q],
              [title |-> "T", description |-> "", assignee |-> a, status |-> "pending",
               createdAt |-> c], "none") :
        t \in ViewTasks, q \in {"p1"}, a \in {None, "alice"}, c \in {"d1", "d2"}}

\* updates as the bridge builds them: the incoming truthy values that differ
TaskUpdatedEvents ==
    {NewEvent("e1", 1, "external", "TaskUpdated", [taskId |-> t, projectId |-> "p1"],
              [updates |-> u, updatedAt |-> d], "none") :
        t \in ViewTasks,
        u \in {[description |-> "D"], [assignee |-> "bob"]},
        d \in {"d3"}}

TaskStatusChangedEvents ==
    {NewEvent("e1", 1, "external", "TaskStatusChanged",
              [taskId |-> t, projectId |-> "p1"],
              [oldStatus |-> "pending", newStatus |-> n, updatedAt |-> "d5"], "none") :
        t \in ViewTasks, n \in {"completed", "in_progress"}}

ProjectProgressEvents ==
    {NewEvent("e1", 1, "agent", "ProjectProgressCalculated", [projectId |-> q],
              [progress |-> Percent(c, 1), completedTasks |-> c, totalTasks |-> 1,
               calculatedAt |-> "d6"], "e0") :
        q \in {"p1"}, c \in {0, 1}}

ProjectData(e) ==
    [projectId |-> e.subject.projectId,
     name |-> Get(e.payload, "name", ""),
     description |-> Get(e.payload, "description", ""),
     status |-> "active",
     createdAt |-> Get(e.payload, "createdAt", Now),
     updatedAt |-> Get(e.payload, "createdAt", Now)]

\* ViewMaterializer._handle_project_created
HandleProjectCreated(e) ==
    /\ IF ~Truthy(Get(e.subject, "projectId", None)) \/ ~Accepts(ProjectData(e))
       THEN UNCHANGED <<projectHashes, projectsSet>>
       ELSE /\ projectHashes' = [projectHashes EXCEPT
                                    ![e.subject.projectId] = HSet(@, ProjectData(e))]
            /\ projectsSet' = projectsSet \cup {e.subject.projectId}
    /\ UNCHANGED <<taskVars, dependencyVars, insightVars>>

MissingNever(h) == FALSE

\* "if not project_data" / "if not task_data": hgetall returned nothing
Missing(h) == h = EmptyHash

UpdatedProject(h, e) ==
    HSet(HSet(h, Get(e.payload, "updates", EmptyHash)),
         [updatedAt |-> Get(e.payload, "updatedAt", Now)])

\* ViewMaterializer._handle_project_updated
HandleProjectUpdated(e) ==
    /\ IF \/ ~Truthy(Get(e.subject, "projectId", None))
          \/ Missing(projectHashes[e.subject.projectId])
          \/ ~Accepts(UpdatedProject(projectHashes[e.subject.projectId], e))
       THEN UNCHANGED projectHashes
       ELSE projectHashes' = [projectHashes EXCEPT
                                 ![e.subject.projectId] = UpdatedProject(@, e)]
    /\ UNCHANGED <<projectsSet, taskVars, dependencyVars, insightVars>>

TaskData(e) ==
    [taskId |-> e.subject.taskId,
     projectId |-> e.subject.projectId,
     title |-> Get(e.payload, "title", ""),
     description |-> Get(e.payload, "description", ""),
     status |-> Get(e.payload, "status", "pending"),
     assignee |-> Get(e.payload, "assignee", None),
     createdAt |-> Get(e.payload, "createdAt", Now),
     updatedAt |-> Get(e.payload, "createdAt", Now)]

\* ViewMaterializer._handle_task_created
HandleTaskCreated(e) ==
    /\ IF \/ ~Truthy(Get(e.subject, "taskId", None))
          \/ ~Truthy(Get(e.subject, "projectId", None))
          \/ ~Accepts(TaskData(e))
       THEN UNCHANGED <<taskHashes, projectTasks, tasksSet>>
       ELSE /\ taskHashes' = [taskHashes EXCEPT ![e.subject.taskId] = HSet(@, TaskData(e))]
            /\ projectTasks' = [projectTasks EXCEPT
                                   ![e.subject.projectId] = @ \cup {e.subject.taskId}]
            /\ tasksSet' = tasksSet \cup {e.subject.taskId}
    /\ UNCHANGED <<projectVars, dependencyVars, insightVars>>

UpdatedTaskKeepStamp(h, e) == HSet(h, Get(e.payload, "updates", EmptyHash))

\* _handle_task_updated: the read hash with the updates and the new updatedAt
UpdatedTask(h, e) ==
    HSet(HSet(h, Get(e.payload, "updates", EmptyHash)),
         [updatedAt |-> Get(e.payload, "updatedAt", Now)])

\* ViewMaterializer._handle_task_updated
HandleTaskUpdated(e) ==
    /\ IF \/ ~Truthy(Get(e.subject, "taskId", None))
          \/ ~Truthy(Get(e.subject, "projectId", None))
          \/ Missing(taskHashes[e.subject.taskId])
          \/ ~Accepts(UpdatedTask(taskHashes[e.subject.taskId], e))
       THEN UNCHANGED taskHashes
       ELSE taskHashes' = [taskHashes EXCEPT ![e.subject.taskId] = UpdatedTask(@, e)]
    /\ UNCHANGED <<projectTasks, tasksSet, projectVars, dependencyVars, insightVars>>

\* ViewMaterializer._handle_task_status_changed
HandleTaskStatusChanged(e) ==
    /\ IF \/ ~Truthy(Get(e.subject, "taskId", None))
          \/ ~Truthy(Get(e.subject, "projectId", None))
          \/ Missing(taskHashes[e.subject.taskId])
          \/ ~Truthy(Get(e.payload, "newStatus", None))
       THEN UNCHANGED taskHashes
       ELSE taskHashes' = [taskHashes EXCEPT ![e.subject.taskId] =
                HSet(@, [status |-> e.payload.newStatus,
                         updatedAt |-> Get(e.payload, "updatedAt", Now)])]
    /\ UNCHANGED <<projectTasks, tasksSet, projectVars, dependencyVars, insightVars>>

\* progress_data of _handle_project_progress, with the numbers as redis-py
\* encodes them
ProgressData(e) ==
    [progress |-> IF "progress" \in DOMAIN e.payload
                  THEN FloatRepr(e.payload.progress) ELSE "0",
     completedTasks |-> ToString(Get(e.payload, "completedTasks", 0)),
     totalTasks |-> ToString(Get(e.payload, "totalTasks", 0)),
     calculatedAt |-> Get(e.payload, "calculatedAt", Now)]

\* ViewMaterializer._handle_project_progress
HandleProjectProgress(e) ==
    /\ IF \/ ~Truthy(Get(e.subject, "projectId", None))
          \/ Missing(projectHashes[e.subject.projectId])
       THEN UNCHANGED projectHashes
       ELSE projectHashes' = [projectHashes EXCEPT ![e.subject.projectId] =
                HSet(HSet(@, ProgressData(e)),
                     [updatedAt |-> ProgressData(e).calculatedAt])]
    /\ UNCHANGED <<projectsSet, taskVars, dependencyVars, insightVars>>

DependencyTasks == {"t1", "t2", "t3"}

DependencyAddedEvents ==
    {NewEvent("e1", 1, "agent", "DependencyAdded",
              [sourceTaskId |-> a, targetTaskId |-> b],
              [dependencyType |-> "depends-on", createdAt |-> "d7"], "e0") :
        a \in DependencyTasks, b \in DependencyTasks}

\* dependency_key = f"{source_task_id}:{target_task_id}"
DependencyKey(source, target) == source \o ":" \o target

DependencyData(e) ==
    [sourceTaskId |-> e.subject.sourceTaskId,
     targetTaskId |-> e.subject.targetTaskId,
     dependencyType |-> Get(e.payload, "dependencyType", "depends-on"),
     createdAt |-> Get(e.payload, "createdAt", Now)]

SAddNothing(index, key, member) == index

\* redis sadd(key, member) on one of the per-task sets
SAdd(index, key, member) == [index EXCEPT ![key] = @ \cup {member}]

\* ViewMaterializer._handle_dependency_added
HandleDependencyAdded(e) ==
    /\ IF \/ ~Truthy(Get(e.subject, "sourceTaskId", None))
          \/ ~Truthy(Get(e.subject, "targetTaskId", None))
          \/ ~Accepts(DependencyData(e))
       THEN UNCHANGED dependencyVars
       ELSE LET source == e.subject.sourceTaskId
                target == e.subject.targetTaskId
            IN /\ dependencyHashes' = HPut(dependencyHashes,
                                           DependencyKey(source, target),
                                           DependencyData(e))
               /\ taskDependencies' = [taskDependencies EXCEPT
                                          ![source] = @ \cup {target}]
               /\ taskDependents' = SAdd(taskDependents, target, source)
    /\ UNCHANGED <<projectVars, taskVars, insightVars>>

\* ViewMaterializer.get_task_dependencies (the rows, in no particular order)
GetTaskDependencies(task) ==
    {HGetAll(dependencyHashes, DependencyKey(task, d)) : d \in taskDependencies[task]}
        \ {EmptyHash}

\* ViewMaterializer.get_task_dependents
GetTaskDependents(task) ==
    {HGetAll(dependencyHashes, DependencyKey(d, task)) : d \in taskDependents[task]}
        \ {EmptyHash}

InsightRaisedEvents ==
    {NewEvent(i, 1, "agent", "InsightRaised", [projectId |-> "p1"],
              [message |-> m, severity |-> "info", timestamp |-> "d8"], "e0") :
        i \in {"e1", "e2"}, m \in {"m1", "m2"}}

\* insight_id = f"insight:{int(time.time() * 1000)}"
InsightId(ms) == "insight:" \o ToString(ms)

\* the payload keys other than message, severity and timestamp
AdditionalData(e) ==
    [k \in DOMAIN e.payload \ {"message", "severity", "timestamp"} |-> e.payload[k]]

InsightData(e, ms) ==
    LET base == [insightId |-> InsightId(ms),
                 projectId |-> e.subject.projectId,
                 message |-> Get(e.payload, "message", ""),
                 severity |-> Get(e.payload, "severity", "info"),
                 timestamp |-> Get(e.payload, "timestamp", Now),
                 source |-> e.source]
    IN IF AdditionalData(e) = EmptyHash
       THEN base
       ELSE HSet(base, [additionalData |-> <<"json", AdditionalData(e)>>])

\* ViewMaterializer._handle_insight_raised; both clock readings of one
\* invocation fall in the same millisecond
HandleInsightRaised(e) ==
    /\ IF ~Truthy(Get(e.subject, "projectId", None)) \/ ~Accepts(InsightData(e, clockMs))
       THEN UNCHANGED insightVars
       ELSE /\ insightHashes' = HPut(insightHashes, InsightId(clockMs),
                                     InsightData(e, clockMs))
            /\ projectInsights' = [projectInsights EXCEPT ![e.subject.projectId] =
                                       @ \cup {InsightId(clockMs)}]
            /\ insightsByTime' = HPut(insightsByTime, InsightId(clockMs),
                                      [score |-> clockMs])
    /\ UNCHANGED <<projectVars, taskVars, dependencyVars>>

\* ViewMaterializer._subscribe_to_events: the handler registered for each kind
Dispatch(e) ==
    CASE e.kind = "ProjectCreated" -> HandleProjectCreated(e)
      [] e.kind = "ProjectUpdated" -> HandleProjectUpdated(e)
      [] e.kind = "TaskCreated" -> HandleTaskCreated(e)
      [] e.kind = "TaskUpdated" -> HandleTaskUpdated(e)
      [] e.kind = "TaskStatusChanged" -> HandleTaskStatusChanged(e)
      [] e.kind = "DependencyAdded" -> HandleDependencyAdded(e)
      [] e.kind = "ProjectProgressCalculated" -> HandleProjectProgress(e)
      [] e.kind = "InsightRaised" -> HandleInsightRaised(e)

\* The projector's callback invoked with e, with the history of what it was
\* handed
Projected(e) ==
    /\ Dispatch(e)
    /\ lastApplied' = <<e>>
    /\ createdIds' =
          IF e.kind = "ProjectCreated" /\ "projectId" \in DOMAIN e.subject
          THEN createdIds \cup {<<"project", e.subject.projectId>>}
          ELSE IF e.kind = "TaskCreated" /\ "taskId" \in DOMAIN e.subject
          THEN createdIds \cup {<<"task", e.subject.taskId>>}
          ELSE createdIds
    /\ nInsights' = IF e.kind = "InsightRaised" THEN nInsights + 1 ELSE nInsights

\* The projector alone, handed e
Applied(e) ==
    /\ Projected(e)
    /\ UNCHANGED <<clockMs, outsideView>>

\* The projector's clock moves on to the next millisecond
Tick ==
    /\ clockMs < MaxClock
    /\ clockMs' = clockMs + 1
    /\ UNCHANGED <<projectVars, taskVars, dependencyVars, insightVars, viewHistory,
                   outsideView>>

\* ViewMaterializer.get_project
GetProject(id) == projectHashes[id]

\* ViewMaterializer.get_task
GetTask(id) == taskHashes[id]

-----------------------------------------------------------------------------
(* Agents                                                                   *)

\* uuid4 ids of the facts constructed by the agents: the n-th is new
FreshId(n) == "f" \o ToString(n)

\* dict assignment d[key] = value on a dictionary kept with a growing domain
Put(d, key, value) ==
    [k \in DOMAIN d \cup {key} |-> IF k = key THEN value ELSE d[k]]

\* BaseAgent.should_process_event
ShouldProcessEvent(subscribed, e) == e.kind \in subscribed

\* ProgressAgent.__init__: subscribed_events
ProgressSubscribed == {"TaskStatusChanged", "TaskCreated"}

AgentTasks == {"t1", "t2", "t3", "t4"}

\* The task facts ProgressAgent is handed; a status change may lack newStatus
ProgressInputs ==
    {NewEvent("e-" \o t, 1, "external", "TaskCreated",
              [taskId |-> t, projectId |-> "p1"],
              [title |-> "T", description |-> "", assignee |-> "alice",
               status |-> "pending", createdAt |-> "d1"], "none") : t \in AgentTasks}
    \cup
    {NewEvent("s-" \o t, 1, "external", "TaskStatusChanged",
              [taskId |-> t, projectId |-> "p1"],
              [oldStatus |-> "pending", newStatus |-> n, updatedAt |-> "d5"], "none") :
        t \in AgentTasks, n \in {"completed", None}}

\* the fields _handle_task_status_changed / _handle_task_created require
HasRequiredFields(e) ==
    /\ Truthy(Get(e.subject, "projectId", None))
    /\ Truthy(Get(e.subject, "taskId", None))
    /\ e.kind = "TaskStatusChanged" => Truthy(Get(e.payload, "newStatus", None))

RecordedStatusPending(e) == "pending"

\* the status the handler records for the task
RecordedStatus(e) ==
    IF e.kind = "TaskStatusChanged"
    THEN e.payload.newStatus
    ELSE Get(e.payload, "status", "pending")

\* self.project_tasks[project_id][task_id] = status
Tracked(tasks, e) ==
    Put(tasks, e.subject.projectId,
        Put(Get(tasks, e.subject.projectId, EmptyHash), e.subject.taskId,
            RecordedStatus(e)))

CompletedOfNone(tasks) == 0

\* sum(1 for status in tasks.values() if status == "completed")
CompletedOf(tasks) == Cardinality({t \in DOMAIN tasks : tasks[t] = "completed"})

\* ProgressAgent._calculate_project_progress: the facts handed to publish
CalculateProjectProgress(tasks, project, causedBy, n) ==
    IF project \notin DOMAIN tasks \/ Cardinality(DOMAIN tasks[project]) = 0
    THEN <<>>
    ELSE LET total == Cardinality(DOMAIN tasks[project])
             completed == CompletedOf(tasks[project])
         IN <<NewEvent(FreshId(n), 1, "ProgressAgent", "ProjectProgressCalculated",
                       [projectId |-> project],
                       [progress |-> Percent(completed, total),
                        completedTasks |-> completed,
                        totalTasks |-> total,
                        calculatedAt |-> "d6"], causedBy)>>

\* ProgressAgent.process_event
ProgressAgentProcess(e) ==
    IF ShouldProcessEvent(ProgressSubscribed, e) /\ HasRequiredFields(e)
    THEN /\ project_tasks' = Tracked(project_tasks, e)
         /\ outbox' = CalculateProjectProgress(Tracked(project_tasks, e),
                                               e.subject.projectId, e.id, nextId)
    ELSE /\ UNCHANGED project_tasks
         /\ outbox' = <<>>

\* RelationAgent.__init__: subscribed_events
RelationSubscribed == {"TaskCreated", "TaskUpdated"}

\* Task ids as they are written in facts and in descriptions
TaskNames == {"task-a", "task-b", "task-c", "task-A"}

\* str.lower() on the task ids met here
Lower(name) == IF name = "task-A" THEN "task-a" ELSE name

\* A description is modelled by the task ids written in it, in order
Descriptions ==
    {<<>>} \cup {<<a>> : a \in TaskNames}
           \cup {<<a, b>> : a \in {"task-a", "task-b"}, b \in {"task-b", "task-c"}}

\* The task facts RelationAgent is handed
RelationInputs ==
    {NewEvent("e-" \o t, 1, "external", "TaskCreated",
              [taskId |-> t, projectId |-> "p1"],
              [title |-> "T", description |-> d, assignee |-> "alice",
               status |-> "pending", createdAt |-> "d1"], "none") :
        t \in TaskNames, d \in Descriptions}
    \cup
    {NewEvent("u-" \o t, 1, "external", "TaskUpdated",
              [taskId |-> t, projectId |-> "p1"],
              [updates |-> [description |-> d], updatedAt |-> "d3"], "none") :
        t \in {"task-c"}, d \in Descriptions \ {<<>>}}

\* RelationAgent._extract_task_mentions: the matches in the lowered text
ExtractTaskMentions(text) == [i \in 1..Len(text) |-> Lower(text[i])]

RECURSIVE Dfs(_, _, _, _)
RECURSIVE DfsEach(_, _, _, _)

\* dfs of _would_create_cycle: whether "source" is reached from "current",
\* and the visited set afterwards
Dfs(deps, source, current, visited) ==
    IF current = source
    THEN [found |-> TRUE, visited |-> visited]
    ELSE IF current \in visited
    THEN [found |-> FALSE, visited |-> visited]
    ELSE DfsEach(deps, source, Get(deps, current, {}), visited \cup {current})

\* the loop "for dependent in self.task_dependencies.get(current_id, set())"
DfsEach(deps, source, todo, visited) ==
    IF todo = {}
    THEN [found |-> FALSE, visited |-> visited]
    ELSE LET d == CHOOSE x \in todo : TRUE
             r == Dfs(deps, source, d, visited)
         IN IF r.found THEN r ELSE DfsEach(deps, source, todo \ {d}, r.visited)

WouldCreateCycleNever(deps, source, target) == FALSE

\* RelationAgent._would_create_cycle
WouldCreateCycle(deps, source, target) == Dfs(deps, source, target, {}).found

RECURSIVE Analyzed(_, _, _, _)

\* the loop of _analyze_task_for_dependencies over the mentions from the i-th
\* on: the adjacency map afterwards and the edges published, in order
Analyzed(deps, task, mentions, i) ==
    IF i > Len(mentions)
    THEN [deps |-> deps, edges |-> <<>>]
    ELSE IF mentions[i] = task \/ WouldCreateCycle(deps, task, mentions[i])
    THEN Analyzed(deps, task, mentions, i + 1)
    ELSE LET rest == Analyzed(Put(deps, task, Get(deps, task, {}) \cup {mentions[i]}),
                              task, mentions, i + 1)
         IN [deps |-> rest.deps, edges |-> <<mentions[i]>> \o rest.edges]

\* the description _analyze_task_for_dependencies reads
DescriptionOf(e) ==
    IF e.kind = "TaskCreated"
    THEN Get(e.payload, "description", <<>>)
    ELSE Get(Get(e.payload, "updates", EmptyHash), "description", <<>>)

\* the DependencyAdded facts published for the edges task -> edges[i]
DependencyFacts(task, edges, causedBy, n) ==
    [i \in 1..Len(edges) |->
        NewEvent(FreshId(n + i - 1), 1, "RelationAgent", "DependencyAdded",
                 [sourceTaskId |-> task, targetTaskId |-> edges[i]],
                 [dependencyType |-> "depends-on", createdAt |-> "d7"], causedBy)]

\* RelationAgent.process_event
RelationAgentProcess(e) ==
    IF /\ ShouldProcessEvent(RelationSubscribed, e)
       /\ Truthy(Get(e.subject, "taskId", None))
       /\ Truthy(Get(e.subject, "projectId", None))
    THEN LET r == Analyzed(relation_dependencies, e.subject.taskId,
                           ExtractTaskMentions(DescriptionOf(e)), 1)
         IN /\ relation_dependencies' = r.deps
            /\ outbox' = DependencyFacts(e.subject.taskId, r.edges, e.id, nextId)
    ELSE /\ UNCHANGED relation_dependencies
         /\ outbox' = <<>>

\* InsightAgent.__init__: subscribed_events
InsightSubscribed == {"ProjectProgressCalculated", "DependencyAdded"}

\* Progress values around the thresholds: 0, 10, 10.5, 50, 79.5, 80, 89.5, 90, 100
ProgressGrid ==
    {Percent(0, 1), Percent(1, 10), Percent(21, 200), Percent(1, 2),
     Percent(159, 200), Percent(4, 5), Percent(179, 200), Percent(9, 10),
     Percent(1, 1)}

ChainTasks == {"a", "b", "c", "d"}

\* The edges InsightAgent is told about: the chain a -> b -> c -> d, the
\* shortcut a -> c and the repeated edge
ChainEdges == {<<"a", "b">>, <<"b", "c">>, <<"c", "d">>, <<"a", "c">>}

\* The facts InsightAgent is handed; a progress fact may lack its progress
InsightInputs ==
    {NewEvent("g1", 1, "ProgressAgent", "ProjectProgressCalculated",
              [projectId |-> "p1"],
              [progress |-> p, completedTasks |-> 0, totalTasks |-> 1,
               calculatedAt |-> "d6"], "e0") : p \in ProgressGrid}
    \cup
    {NewEvent("g1", 1, "ProgressAgent", "ProjectProgressCalculated",
              [projectId |-> "p1"], [calculatedAt |-> "d6"], "e0")}
    \cup
    {NewEvent("g2", 1, "RelationAgent", "DependencyAdded",
              [sourceTaskId |-> x[1], targetTaskId |-> x[2]],
              [dependencyType |-> "depends-on", createdAt |-> "d7"], "e0") :
        x \in ChainEdges}

\* f"{progress:.1f}": the value rounded to one decimal
Format1f(p) ==
    LET tenths == (20 * p.num + p.den) \div (2 * p.den)
    IN ToString(tenths \div 10) \o "." \o ToString(tenths % 10)

ApproachingAlways(p) == TRUE

\* 80 <= progress < 90
Approaching(p) == AtLeast(p, 80) /\ Below(p, 90)

\* the insights list of _check_project_progress: the candidate messages
Candidates(p) ==
    (IF Approaching(p)
     THEN <<"Project is approaching completion (" \o Format1f(p) \o "%)">>
     ELSE <<>>)
    \o (IF AtLeast(p, 90)
        THEN <<"Project is nearly complete (" \o Format1f(p) \o "%)">>
        ELSE <<>>)
    \o (IF AtMost(p, 10)
        THEN <<"Project has just started (" \o Format1f(p) \o "%)">>
        ELSE <<>>)

\* insight_key = f"{project_id}:{insight['message']}"
InsightKey(project, message) == project \o ":" \o message

AlreadyRaisedNever(keys, key) == FALSE

\* "insight_key not in self.insights" negated
AlreadyRaised(keys, key) == key \in keys

RECURSIVE PublishInsights(_, _, _, _)

\* the loop "for insight in insights" of _check_project_progress from the
\* i-th candidate on: the dedup set afterwards and the messages published
PublishInsights(keys, project, messages, i) ==
    IF i > Len(messages)
    THEN [keys |-> keys, published |-> <<>>]
    ELSE IF AlreadyRaised(keys, InsightKey(project, messages[i]))
    THEN PublishInsights(keys, project, messages, i + 1)
    ELSE LET rest == PublishInsights(keys \cup {InsightKey(project, messages[i])},
                                     project, messages, i + 1)
         IN [keys |-> rest.keys, published |-> <<messages[i]>> \o rest.published]

\* the InsightRaised facts published for the messages
ProgressInsightFacts(project, messages, causedBy, n) ==
    [i \in 1..Len(messages) |->
        NewEvent(FreshId(n + i - 1), 1, "InsightAgent", "InsightRaised",
                 [projectId |-> project],
                 [message |-> messages[i], severity |-> "info", timestamp |-> "d8"],
                 causedBy)]

\* InsightAgent._handle_progress_event
HandleProgressEvent(e) ==
    IF Truthy(Get(e.subject, "projectId", None)) /\ "progress" \in DOMAIN e.payload
    THEN LET project == e.subject.projectId
             r == PublishInsights(insights, project, Candidates(e.payload.progress), 1)
         IN /\ project_progress' = Put(project_progress, project, e.payload.progress)
            /\ insights' = r.keys
            /\ outbox' = ProgressInsightFacts(project, r.published, e.id, nextId)
            /\ UNCHANGED insight_dependencies
    ELSE /\ UNCHANGED <<project_progress, insight_dependencies, insights>>
         /\ outbox' = <<>>

\* The orders in which a Python set of task ids may be iterated: no set met
\* here has more than two elements, and each pair comes in both orders
Orders == {<<"a", "b", "c", "d">>, <<"d", "c", "b", "a">>}

\* the element of "todo" that comes first in "order"
FirstOf(todo, order) ==
    order[CHOOSE i \in DOMAIN order :
            order[i] \in todo /\ \A j \in 1..(i - 1) : order[j] \notin todo]

Max(a, b) == IF a >= b THEN a ELSE b

\* F applied to the value of v, with v evaluated once (inside ENABLED a LET
\* definition is evaluated again at each of its uses)
Bind(v, F(_)) == CHOOSE r \in {F(x) : x \in {v}} : TRUE

RECURSIVE ChainDfs(_, _, _, _)
RECURSIVE ChainEach(_, _, _, _, _)

\* dfs of _get_dependency_chain_length: the length found from "current" and
\* the visited set afterwards
ChainDfs(deps, current, visited, order) ==
    IF current \in visited
    THEN [len |-> 0, visited |-> visited]
    ELSE IF current \notin DOMAIN deps \/ deps[current] = {}
    THEN [len |-> 1, visited |-> visited \cup {current}]
    ELSE Bind(ChainEach(deps, deps[current], visited \cup {current}, order, 0),
              LAMBDA r : [len |-> r.len + 1, visited |-> r.visited])

\* the loop "for dep_id in dependencies" with its running max_length
ChainEach(deps, todo, visited, order, longest) ==
    IF todo = {}
    THEN [len |-> longest, visited |-> visited]
    ELSE Bind(FirstOf(todo, order), LAMBDA d :
              Bind(ChainDfs(deps, d, visited, order), LAMBDA r :
                   ChainEach(deps, todo \ {d}, r.visited, order, Max(longest, r.len))))

\* InsightAgent._get_dependency_chain_length
GetDependencyChainLength(deps, task, order) == ChainDfs(deps, task, {}, order).len

\* InsightAgent._handle_dependency_event with _check_dependency_insights
HandleDependencyEvent(e, order) ==
    IF Truthy(Get(e.subject, "sourceTaskId", None))
       /\ Truthy(Get(e.subject, "targetTaskId", None))
    THEN LET source == e.subject.sourceTaskId
             deps == Put(insight_dependencies, source,
                         Get(insight_dependencies, source, {})
                             \cup {e.subject.targetTaskId})
             length == GetDependencyChainLength(deps, source, order)
             key == source \o ":dependency_chain"
         IN /\ insight_dependencies' = deps
            /\ UNCHANGED project_progress
            /\ IF length > 3 /\ ~AlreadyRaised(insights, key)
               THEN /\ insights' = insights \cup {key}
                    /\ outbox' = <<NewEvent(FreshId(nextId), 1, "InsightAgent",
                                     "InsightRaised", [projectId |-> "project-unknown"],
                                     [message |-> "Task " \o source
                                          \o " has a long dependency chain ("
                                          \o ToString(length) \o " levels)",
                                      severity |-> "warning", timestamp |-> "d8",
                                      taskId |-> source, chainLength |-> length],
                                     e.id)>>
               ELSE /\ UNCHANGED insights
                    /\ outbox' = <<>>
    ELSE /\ UNCHANGED <<project_progress, insight_dependencies, insights>>
         /\ outbox' = <<>>

\* InsightAgent.process_event
InsightAgentProcess(e, order) ==
    IF ~ShouldProcessEvent(InsightSubscribed, e)
    THEN /\ UNCHANGED <<project_progress, insight_dependencies, insights>>
         /\ outbox' = <<>>
    ELSE IF e.kind = "ProjectProgressCalculated"
    THEN HandleProgressEvent(e)
    ELSE HandleDependencyEvent(e, order)

\* The dedup key of an InsightRaised fact an agent published
KeyOf(f) ==
    IF "taskId" \in DOMAIN f.payload
    THEN f.payload.taskId \o ":dependency_chain"
    ELSE InsightKey(f.subject.projectId, f.payload.message)

RECURSIVE Counted(_, _, _)

\* the bag "bag" with the keys of the InsightRaised facts of "facts" from the
\* i-th on added
Counted(bag, facts, i) ==
    IF i > Len(facts)
    THEN bag
    ELSE IF facts[i].kind # "InsightRaised"
    THEN Counted(bag, facts, i + 1)
    ELSE Counted(Put(bag, KeyOf(facts[i]), Get(bag, KeyOf(facts[i]), 0) + 1),
                 facts, i + 1)

\* An agent's callback invoked with e: the agent's step with the history of
\* what it handled and published
Handled(name, e) ==
    /\ handled' = <<name, e>>
    /\ emitted' = Counted(emitted, outbox', 1)
    /\ nextId' = nextId + Len(outbox')

\* ProgressAgent alone, handed e
ProgressAgentStep(e) ==
    /\ nextId <= MaxFacts
    /\ ProgressAgentProcess(e)
    /\ Handled("ProgressAgent", e)
    /\ UNCHANGED <<relation_dependencies, project_progress, insight_dependencies,
                   insights>>
    /\ UNCHANGED <<storeVars, brokerVars, lifecycleVars, clientVars, viewVars, systemVars>>

\* RelationAgent alone, handed e
RelationAgentStep(e) ==
    /\ nextId <= MaxFacts
    /\ RelationAgentProcess(e)
    /\ Handled("RelationAgent", e)
    /\ UNCHANGED <<project_tasks, project_progress, insight_dependencies, insights>>
    /\ UNCHANGED <<storeVars, brokerVars, lifecycleVars, clientVars, viewVars, systemVars>>

\* InsightAgent alone, handed e
InsightAgentStep(e, order) ==
    /\ nextId <= MaxFacts
    /\ InsightAgentProcess(e, order)
    /\ Handled("InsightAgent", e)
    /\ UNCHANGED <<project_tasks, relation_dependencies>>
    /\ UNCHANGED <<storeVars, brokerVars, lifecycleVars, clientVars, viewVars, systemVars>>

-----------------------------------------------------------------------------
(* The assembled system after initialize_event_system: one FactStore, one   *)
(* EventBroker, the projector and the three agents started in that order.   *)
(* The main thread publishes external facts; the listener thread invokes    *)
(* the callbacks of one fact after the other, and the facts an agent        *)
(* publishes from its callback join the channel behind those already sent.  *)
(* publish is taken as one step here; its interleavings are those of        *)
(* SpecStore and Spec.                                                      *)

\* The callbacks registered per kind, in the order of the subscribe calls
SystemSubscribers(kind) ==
    CASE kind = "TaskCreated" -> <<"view", "progress", "relation">>
      [] kind = "TaskStatusChanged" -> <<"view", "progress">>
      [] kind = "TaskUpdated" -> <<"view", "relation">>
      [] kind = "ProjectProgressCalculated" -> <<"view", "insight">>
      [] kind = "DependencyAdded" -> <<"view", "insight">>
      [] OTHER -> <<"view">>

\* The facts the main thread publishes: project p1, its task t1 created
\* pending, and t1 completed. Publishing one again replays the same fact.
SystemInputs ==
    {NewEvent("pc", 1, "external", "ProjectCreated", [projectId |-> "p1"],
              [name |-> "A", description |-> "", createdAt |-> "d1"], "none"),
     NewEvent("tc", 1, "external", "TaskCreated", [taskId |-> "t1", projectId |-> "p1"],
              [title |-> "T", description |-> <<>>, assignee |-> "alice",
               status |-> "pending", createdAt |-> "d1"], "none"),
     NewEvent("sc", 1, "external", "TaskStatusChanged",
              [taskId |-> "t1", projectId |-> "p1"],
              [oldStatus |-> "pending", newStatus |-> "completed", updatedAt |-> "d5"],
              "tc")}

\* The four Redis structures of the FactStore as one value
Log == [eventStore |-> eventStore, kindIndex |-> kindIndex,
        timeIndex |-> timeIndex, projectIndex |-> projectIndex,
        appendOrder |-> appendOrder]

\* FactStore.append: whether it returns True for e
AppendAccepts(e) == VerifyIntegrity(e)

LogAfterAppendNothing(log, e) == log

\* FactStore.append: the log afterwards
LogAfterAppend(log, e) ==
    IF ~VerifyIntegrity(e) \/ Exists(log.eventStore, e.id)
    THEN log
    ELSE [eventStore |-> Put(log.eventStore, e.id, ToDict(e)),
          kindIndex |-> Put(log.kindIndex, e.kind,
                            Get(log.kindIndex, e.kind, {}) \cup {e.id}),
          timeIndex |-> Put(log.timeIndex, e.id, e.ts),
          projectIndex |->
              IF "projectId" \in DOMAIN e.subject
              THEN Put(log.projectIndex, e.subject.projectId,
                       Get(log.projectIndex, e.subject.projectId, {}) \cup {e.id})
              ELSE log.projectIndex,
          appendOrder |-> Append(log.appendOrder, e.id)]

RECURSIVE PublishedAll(_, _, _, _)

\* EventBroker.publish called for facts[i], facts[i+1], ...: the log and the
\* channel afterwards
PublishedAll(log, ch, facts, i) ==
    IF i > Len(facts)
    THEN [log |-> log, channel |-> ch]
    ELSE PublishedAll(LogAfterAppend(log, facts[i]),
                      IF AppendAccepts(facts[i]) THEN Append(ch, ToDict(facts[i])) ELSE ch,
                      facts, i + 1)

\* The log and the channel become those of r
Becomes(r) ==
    /\ eventStore' = r.log.eventStore
    /\ kindIndex' = r.log.kindIndex
    /\ timeIndex' = r.log.timeIndex
    /\ projectIndex' = r.log.projectIndex
    /\ appendOrder' = r.log.appendOrder
    /\ queue' = r.channel

\* The main thread publishes an external fact
PublishExternal(e) ==
    /\ Len(externals) < MaxExternal
    /\ Becomes(PublishedAll(Log, queue, <<e>>, 1))
    /\ externals' = Append(externals, e.id)
    /\ UNCHANGED <<fanout, rebuild, brokerVars, lifecycleVars, clientVars, viewVars, agentVars,
                   agentHistory>>

\* _handle_message: the fact being fanned out, or the next one of the channel
CurrentFact == IF fanout # <<>> THEN fanout[1].event ELSE FromDict(queue[1])

CurrentIndex == IF fanout # <<>> THEN fanout[1].idx ELSE 1

\* the channel without the message being fanned out
Waiting == IF fanout # <<>> THEN queue ELSE Tail(queue)

\* the callback the loop of _handle_message calls next ("none": nothing to do)
NextCallback ==
    IF fanout = <<>> /\ queue = <<>>
    THEN "none"
    ELSE SystemSubscribers(CurrentFact.kind)[CurrentIndex]

AdvanceStuck == fanout' = <<[event |-> CurrentFact, idx |-> CurrentIndex]>>

\* the loop moves on to the next callback, or the fan-out ends
Advance ==
    fanout' = IF CurrentIndex = Len(SystemSubscribers(CurrentFact.kind))
              THEN <<>>
              ELSE <<[event |-> CurrentFact, idx |-> CurrentIndex + 1]>>

\* The listener thread calls the projector's handler
InvokeProjector ==
    /\ NextCallback = "view"
    /\ \E e \in {CurrentFact} : Projected(e)
    /\ Advance
    /\ queue' = Waiting
    /\ UNCHANGED <<storeVars, externals, rebuild, clockMs, brokerVars, lifecycleVars, clientVars, agentVars,
                   agentHistory>>

\* the facts the agent published from its callback are appended and sent
AgentPublished(name) ==
    /\ \E e \in {CurrentFact} : Handled(name, e)
    /\ Becomes(PublishedAll(Log, Waiting, outbox', 1))
    /\ Advance
    /\ UNCHANGED <<externals, rebuild, brokerVars, lifecycleVars, clientVars, viewVars>>

\* The listener thread calls ProgressAgent.process_event
InvokeProgressAgent ==
    /\ NextCallback = "progress"
    /\ \E e \in {CurrentFact} : ProgressAgentProcess(e)
    /\ AgentPublished("ProgressAgent")
    /\ UNCHANGED <<relation_dependencies, project_progress, insight_dependencies,
                   insights>>

\* The listener thread calls RelationAgent.process_event
InvokeRelationAgent ==
    /\ NextCallback = "relation"
    /\ \E e \in {CurrentFact} : RelationAgentProcess(e)
    /\ AgentPublished("RelationAgent")
    /\ UNCHANGED <<project_tasks, project_progress, insight_dependencies, insights>>

\* The listener thread calls InsightAgent.process_event
InvokeInsightAgent(order) ==
    /\ NextCallback = "insight"
    /\ \E e \in {CurrentFact} : InsightAgentProcess(e, order)
    /\ AgentPublished("InsightAgent")
    /\ UNCHANGED <<project_tasks, relation_dependencies>>

\* The listener thread takes its next step
Invoke ==
    \/ InvokeProjector
    \/ InvokeProgressAgent
    \/ InvokeRelationAgent
    \/ \E order \in Orders : InvokeInsightAgent(order)

-----------------------------------------------------------------------------
(* The store, the broker and the projector after initialize(), before any   *)
(* subscribe call and with empty databases                                  *)

Init ==
    /\ eventStore = EmptyHash
    /\ kindIndex = [k \in Kinds |-> {}]
    /\ timeIndex = EmptyHash
    /\ projectIndex = [q \in Projects |-> {}]
    /\ appendOrder = <<>>
    /\ subscribers = [k \in Kinds |-> <<>>]
    /\ pubsubChannels = {}
    /\ running = FALSE
    /\ pc = [t \in Threads |-> "idle"]
    /\ arg = [t \in Threads |-> <<>>]
    /\ exists = [t \in Threads |-> FALSE]
    /\ stored = [t \in Threads |-> FALSE]
    /\ ret = [t \in Threads |-> "none"]
    /\ channel = <<>>
    /\ cur = <<>>
    /\ stack = <<>>
    /\ lastSeq = [k \in Kinds |-> 0]
    /\ resubscribed = <<>>
    /\ nPublish = 0
    /\ nHandOff = 0
    /\ nAppend = 0
    /\ projectHashes = [q \in ViewProjects |-> EmptyHash]
    /\ projectsSet = {}
    /\ taskHashes = [t \in ViewTasks \cup ChainTasks |-> EmptyHash]
    /\ projectTasks = [q \in ViewProjects |-> {}]
    /\ tasksSet = {}
    /\ lastApplied = <<>>
    /\ createdIds = {}
    /\ dependencyHashes = EmptyHash
    /\ taskDependencies = [t \in DependencyTasks \cup ChainTasks |-> {}]
    /\ taskDependents = [t \in DependencyTasks \cup ChainTasks |-> {}]
    /\ insightHashes = EmptyHash
    /\ projectInsights = [q \in ViewProjects \cup {"project-unknown"} |-> {}]
    /\ insightsByTime = EmptyHash
    /\ clockMs = 0
    /\ nInsights = 0
    /\ project_tasks = EmptyHash
    /\ relation_dependencies = EmptyHash
    /\ project_progress = EmptyHash
    /\ insight_dependencies = EmptyHash
    /\ insights = {}
    /\ outbox = <<>>
    /\ nextId = 1
    /\ handled = <<>>
    /\ emitted = EmptyHash
    /\ queue = <<>>
    /\ fanout = <<>>
    /\ externals = <<>>
    /\ is_initialized = FALSE
    /\ is_running = FALSE
    /\ agentPc = "idle"
    /\ lifecycle = "Uninitialized"
    /\ rebuild = <<>>
    /\ latest = <<>>
    /\ fact = <<>>
    /\ bridge = <<>>
    /\ search = <<>>

\* EventBroker with its FactStore
Next ==
    \/ \E t \in Threads : \E e \in InputEvents(t) : PublishCall(t, e)
    \/ \E t \in Threads : AppendExecute(t)
    \/ \E t \in Threads : PublishHandOff(t)
    \/ \E s \in Subscriptions : Subscribe(s[1], s[2])
    \/ \E s \in Subscriptions : Unsubscribe(s[1], {s[2]})
    \/ \E k \in Kinds : Unsubscribe(k, Callbacks)
    \/ HandleMessageBegin
    \/ CallbackEnter
    \/ \E raised \in BOOLEAN : CallbackReturn(raised)
    \/ HandleMessageEnd

Spec == Init /\ [][Next]_vars

\* An agent on this broker: self.process_event is the callback cb1, and
\* subscribed_events lists both kinds.
AgentCallback == "cb1"
AgentKinds == <<"TaskCreated", "DependencyAdded">>

Registered(kind) == AgentCallback \in Range(subscribers[kind])

\* The kind the loop over subscribed_events of start is at: the first one
\* not subscribed yet
StartLoopAt(i) ==
    /\ ~Registered(AgentKinds[i])
    /\ \A j \in 1..(i - 1) : Registered(AgentKinds[j])

\* The kind the loop over subscribed_events of stop is at
StopLoopAt(i) ==
    /\ Registered(AgentKinds[i])
    /\ \A j \in 1..(i - 1) : ~Registered(AgentKinds[j])

\* BaseAgent.initialize
AgentInitialize ==
    /\ pc["main"] = "idle"
    /\ agentPc = "idle"
    /\ is_initialized' = TRUE
    /\ lifecycle' = IF is_initialized THEN lifecycle ELSE "Initialized"
    /\ UNCHANGED <<is_running, agentPc>>
    /\ UNCHANGED <<storeVars, brokerVars, viewVars, agentVars, agentHistory,
                   systemVars, clientVars>>

\* BaseAgent.start up to its loop: "if not self.is_initialized: await
\* self.initialize()", "if self.is_running: return True"
AgentStartCall ==
    /\ pc["main"] = "idle"
    /\ agentPc = "idle"
    /\ is_initialized' = TRUE
    /\ IF is_running
       THEN UNCHANGED <<agentPc, lifecycle>>
       ELSE /\ agentPc' = "starting"
            /\ lifecycle' = IF is_initialized THEN lifecycle ELSE "Initialized"
    /\ UNCHANGED is_running
    /\ UNCHANGED <<storeVars, brokerVars, viewVars, agentVars, agentHistory,
                   systemVars, clientVars>>

\* BaseAgent.start, "self.broker.subscribe(event_kind, self.process_event)"
AgentStartSubscribe ==
    /\ agentPc = "starting"
    /\ \E i \in 1..Len(AgentKinds) :
        /\ StartLoopAt(i)
        /\ Subscribe(AgentKinds[i], AgentCallback)

\* BaseAgent.start, "self.is_running = True" after the loop
AgentStartReturn ==
    /\ agentPc = "starting"
    /\ \A i \in 1..Len(AgentKinds) : Registered(AgentKinds[i])
    /\ is_running' = TRUE
    /\ agentPc' = "idle"
    /\ lifecycle' = "Running"
    /\ UNCHANGED is_initialized
    /\ UNCHANGED <<storeVars, brokerVars, viewVars, agentVars, agentHistory,
                   systemVars, clientVars>>

\* BaseAgent.stop up to its loop: "if not self.is_running: return True"
AgentStopCall ==
    /\ pc["main"] = "idle"
    /\ agentPc = "idle"
    /\ agentPc' = IF is_running THEN "stopping" ELSE agentPc
    /\ UNCHANGED <<is_initialized, is_running, lifecycle>>
    /\ UNCHANGED <<storeVars, brokerVars, viewVars, agentVars, agentHistory,
                   systemVars, clientVars>>

\* BaseAgent.stop, "self.broker.unsubscribe(event_kind, self.process_event)"
AgentStopUnsubscribe ==
    /\ agentPc = "stopping"
    /\ \E i \in 1..Len(AgentKinds) :
        /\ StopLoopAt(i)
        /\ Unsubscribe(AgentKinds[i], {AgentCallback})

AgentStopReturnEarly ==
    /\ agentPc = "stopping"
    /\ is_running' = FALSE
    /\ agentPc' = "idle"
    /\ lifecycle' = "Stopped"
    /\ UNCHANGED is_initialized
    /\ UNCHANGED <<storeVars, brokerVars, viewVars, agentVars, agentHistory,
                   systemVars, clientVars>>

\* BaseAgent.stop, "self.is_running = False" after the loop
AgentStopReturn ==
    /\ agentPc = "stopping"
    /\ \A i \in 1..Len(AgentKinds) : ~Registered(AgentKinds[i])
    /\ is_running' = FALSE
    /\ agentPc' = "idle"
    /\ lifecycle' = "Stopped"
    /\ UNCHANGED is_initialized
    /\ UNCHANGED <<storeVars, brokerVars, viewVars, agentVars, agentHistory,
                   systemVars, clientVars>>

\* One agent started and stopped on the main thread between the publishes,
\* and the listener thread delivering
LifecycleStep ==
    \/ AgentInitialize
    \/ AgentStartCall
    \/ AgentStartSubscribe
    \/ AgentStartReturn
    \/ AgentStopCall
    \/ AgentStopUnsubscribe
    \/ AgentStopReturn
    \/ \E e \in ExternalEvents : agentPc = "idle" /\ PublishCall("main", e)
    \/ \E e \in DerivedEvents : PublishCall("listener", e)
    \/ \E t \in Threads : AppendExecute(t)
    \/ \E t \in Threads : PublishHandOff(t)
    \/ HandleMessageBegin
    \/ CallbackEnter
    \/ \E raised \in BOOLEAN : CallbackReturn(raised)
    \/ HandleMessageEnd

\* with a second subscriber cb2
NextLifecycle ==
    \/ LifecycleStep
    \/ agentPc = "idle" /\ Subscribe("TaskCreated", "cb2")

SpecLifecycle == Init /\ [][NextLifecycle]_vars

\* The same, with the second subscriber registered before the first publish
\* and never unsubscribed: it is registered during every fan-out of its kind
NextFanout ==
    \/ LifecycleStep
    \/ agentPc = "idle" /\ nPublish = 0 /\ Subscribe("TaskCreated", "cb2")

SpecFanout == Init /\ [][NextFanout]_vars

\* FactStore.get_latest on a log filled by append calls

MaxLimit == 3

LatestIds == {"e1", "e2", "e3"}

LatestInputs ==
    {NewEvent(i, ts, "external", "TaskCreated", SubjectOf("TaskCreated"), "a", "none") :
        i \in LatestIds, ts \in {1, 2}}

\* Redis compares the members of a sorted set byte by byte: the place of an
\* id among the ids used here
LexRank(id) == CASE id = "e1" -> 1 [] id = "e2" -> 2 [] OTHER -> 3

\* The order of a sorted set: by score, members of equal score
\* lexicographically
ZBefore(zset, a, b) ==
    \/ zset[a] < zset[b]
    \/ zset[a] = zset[b] /\ LexRank(a) < LexRank(b)

ZRank(zset, id) == Cardinality({j \in DOMAIN zset : ZBefore(zset, j, id)})

\* ZREVRANGE key start stop: the members from the highest place down, between
\* two zero-based inclusive indices; a negative index counts from the end.
ZRevRange(zset, start, stop) ==
    LET n == Cardinality(DOMAIN zset)
        lo == IF start < 0 THEN Max(n + start, 0) ELSE start
        hi == IF stop < 0 THEN n + stop ELSE IF stop > n - 1 THEN n - 1 ELSE stop
        rev == [i \in 1..n |-> CHOOSE id \in DOMAIN zset : ZRank(zset, id) = n - i]
    IN IF lo > hi THEN <<>> ELSE SubSeq(rev, lo + 1, hi + 1)

\* FactStore.get_latest
GetLatest(limit) ==
    LET event_ids == ZRevRange(timeIndex, 0, limit - 1)
        found == SelectSeq(event_ids, LAMBDA id : GetById(eventStore, id) # <<>>)
    IN [i \in 1..Len(found) |-> GetById(eventStore, found[i])[1]]

\* A caller on the main thread calls get_latest between its other calls.
GetLatestCall(limit) ==
    /\ pc["main"] = "idle"
    /\ latest' = <<[limit |-> limit,
                    ids |-> [i \in 1..Len(GetLatest(limit)) |-> GetLatest(limit)[i].id]]>>
    /\ UNCHANGED <<storeVars, brokerVars, viewVars, agentVars, agentHistory, systemVars,
                   lifecycleVars, fact, bridge, search>>

NextLatest ==
    \/ \E t \in Threads : \E e \in LatestInputs : AppendCall(t, e)
    \/ \E t \in Threads : AppendExecute(t)
    \/ \E t \in Threads : AppendReturn(t)
    \/ \E limit \in 0..MaxLimit : GetLatestCall(limit)

SpecLatest == Init /\ [][NextLatest]_vars

\* An Event object constructed by a caller, who then assigns to its attributes

SignedFields == {"id", "ts", "source", "kind", "subject", "payload", "caused_by"}

\* The values an attribute is given
FieldValues(f) ==
    CASE f = "id" -> {"e1", "e2"}
      [] f = "ts" -> {1, 2}
      [] f = "source" -> {"external", "agent"}
      [] f = "kind" -> Kinds
      [] f = "subject" -> {SubjectOf(k) : k \in Kinds}
      [] f = "payload" -> {"a", "x"}
      [] OTHER -> {"none", "e1"}

\* Event(...): the object is kept beside a copy of the values it was built from
Construct(e) ==
    /\ fact = <<>>
    /\ fact' = <<[built |-> e, held |-> e]>>
    /\ UNCHANGED <<storeVars, brokerVars, viewVars, agentVars, agentHistory, systemVars,
                   lifecycleVars, latest, bridge, search>>

\* event.<f> = v: nothing recomputes event.sig
AssignField(f, v) ==
    /\ fact # <<>>
    /\ fact' = <<[fact[1] EXCEPT !.held = [@ EXCEPT ![f] = v]]>>
    /\ UNCHANGED <<storeVars, brokerVars, viewVars, agentVars, agentHistory, systemVars,
                   lifecycleVars, latest, bridge, search>>

NextIntegrity ==
    \/ \E i \in FieldValues("id"), ts \in FieldValues("ts"), src \in FieldValues("source"),
          k \in FieldValues("kind"), sub \in FieldValues("subject"),
          pl \in FieldValues("payload"), cause \in FieldValues("caused_by") :
            Construct(NewEvent(i, ts, src, k, sub, pl, cause))
    \/ \E f \in SignedFields : \E v \in FieldValues(f) : AssignField(f, v)

SpecIntegrity == Init /\ [][NextIntegrity]_vars

\* process_chat_analysis_data of project_manager_event_bridge, one project of
\* the analysis data per call

MaxBridge == 3

BridgeSource == "discord-general"

\* f"project-{project_name.lower().replace(' ', '-')}": "p1" stands for the id
\* derived from the names "P1" and "p1", "p2" for the one of any other name
ProjectIdOf(project_name) == IF project_name \in {"P1", "p1"} THEN "p1" ELSE "p2"

\* f"task-{...}-{task_name.lower().replace(' ', '-')}"
TaskIdOf(project_name, task_name) == "t1"

\* a dict with the keys of r that are in keys
Pick(r, keys) == [k \in keys |-> r[k]]

\* The analysis data of one project: its fields, each present or not, and at
\* most one task with its fields
ProjectFields ==
    {Pick([description |-> d, status |-> st], keys) :
        d \in {"", "D"}, st \in {"done"},
        keys \in SUBSET {"description", "status"}}

TaskFields ==
    {Pick([description |-> d, assignee |-> a, status |-> st], keys) :
        d \in {"D"}, a \in {"alice", "bob"}, st \in {"completed"},
        keys \in SUBSET {"description", "assignee", "status"}}

AnalysisData ==
    {[name |-> n, fields |-> f, tasks |-> t] :
        n \in {"P1"}, f \in ProjectFields,
        t \in {<<>>} \cup {<<[name |-> "T1", fields |-> g]>> : g \in TaskFields}}

BridgeUpdatesAlways(data, existing, fields) ==
    Pick(data, {f \in fields \cap DOMAIN data : Truthy(data[f])})

\* "updates = {}" and the tests that fill it: 'if data.get(f) and data[f] !=
\* existing.get(f, default)' for each field compared; the default ("" or
\* None) is never equal to a truthy value
BridgeUpdates(data, existing, fields) ==
    Pick(data, {f \in fields \cap DOMAIN data :
                    Truthy(data[f]) /\ data[f] # Get(existing, f, None)})

\* the fact an EventFactory method returns, before Event.__init__ draws its id
Draft(kind, subject, payload, cause) ==
    [kind |-> kind, subject |-> subject, payload |-> payload, cause |-> cause]

\* The facts published for the project itself
ProjectFacts(project_name, data) ==
    LET project_id == ProjectIdOf(project_name)
        existing_project == GetProject(project_id)
        updates == BridgeUpdates(data, existing_project, {"description", "status"})
    IN IF existing_project = EmptyHash
       THEN <<Draft("ProjectCreated", [projectId |-> project_id],
                    [name |-> project_name,
                     description |-> Get(data, "description", ""),
                     createdAt |-> Now], 0)>>
       ELSE IF updates # EmptyHash
       THEN <<Draft("ProjectUpdated", [projectId |-> project_id],
                    [updates |-> updates, updatedAt |-> Now], 0)>>
       ELSE <<>>

\* The facts published for one task of the project; cause 1 names the first
\* fact of the same item
TaskFacts(project_name, task_name, data) ==
    LET task_id == TaskIdOf(project_name, task_name)
        subject == [taskId |-> task_id, projectId |-> ProjectIdOf(project_name)]
        existing_task == GetTask(task_id)
        updates == BridgeUpdates(data, existing_task, {"description", "assignee"})
        old_status == Get(existing_task, "status", "pending")
    IN IF existing_task = EmptyHash
       THEN <<Draft("TaskCreated", subject,
                    [title |-> task_name,
                     description |-> Get(data, "description", ""),
                     assignee |-> Get(data, "assignee", None),
                     status |-> "pending", createdAt |-> Now], 0)>>
            \o (IF Get(data, "status", "pending") # "pending"
                THEN <<Draft("TaskStatusChanged", subject,
                             [oldStatus |-> "pending", newStatus |-> data.status,
                              updatedAt |-> Now], 1)>>
                ELSE <<>>)
       ELSE (IF updates # EmptyHash
             THEN <<Draft("TaskUpdated", subject,
                          [updates |-> updates, updatedAt |-> Now], 0)>>
             ELSE <<>>)
            \o (IF Truthy(Get(data, "status", None)) /\ data.status # old_status
                THEN <<Draft("TaskStatusChanged", subject,
                             [oldStatus |-> old_status, newStatus |-> data.status,
                              updatedAt |-> Now], 0)>>
                ELSE <<>>)

\* Event.__init__ for each draft: fresh ids, and caused_by where one is given
Constructed(drafts) ==
    [i \in 1..Len(drafts) |->
        NewEvent(FreshId(nextId + i - 1), 1, BridgeSource, drafts[i].kind,
                 drafts[i].subject, drafts[i].payload,
                 IF drafts[i].cause = 0 THEN "none"
                 ELSE FreshId(nextId + drafts[i].cause - 1))]

\* event_broker.publish for each fact of one item, in order
BridgePublished(facts) ==
    /\ outbox' = facts
    /\ nextId' = nextId + Len(facts)
    /\ Becomes(PublishedAll(Log, queue, facts, 1))
    /\ UNCHANGED <<project_tasks, relation_dependencies, project_progress,
                   insight_dependencies, insights>>
    /\ UNCHANGED <<brokerVars, viewVars, agentHistory, fanout, externals, rebuild,
                   lifecycleVars, latest, fact, search>>

\* process_chat_analysis_data is called and handles the project
BridgeProject(d) ==
    /\ bridge = <<>>
    /\ nextId <= MaxBridge
    /\ bridge' = <<[project |-> d.name, todo |-> d.tasks,
                    item |-> [type |-> "project", data |-> d.fields,
                              existing |-> GetProject(ProjectIdOf(d.name))]]>>
    /\ BridgePublished(Constructed(ProjectFacts(d.name, d.fields)))

\* the loop over the tasks of the project handles the next one
BridgeTask ==
    /\ bridge # <<>>
    /\ bridge[1].todo # <<>>
    /\ LET task == Head(bridge[1].todo) IN
        /\ bridge' = <<[project |-> bridge[1].project, todo |-> Tail(bridge[1].todo),
                        item |-> [type |-> "task", data |-> task.fields,
                                  existing |-> GetTask(TaskIdOf(bridge[1].project,
                                                                task.name))]]>>
        /\ BridgePublished(Constructed(TaskFacts(bridge[1].project, task.name,
                                                 task.fields)))

\* process_chat_analysis_data returns
BridgeReturn ==
    /\ bridge # <<>>
    /\ bridge[1].todo = <<>>
    /\ bridge' = <<>>
    /\ UNCHANGED <<storeVars, brokerVars, viewVars, agentVars, agentHistory, systemVars,
                   lifecycleVars, latest, fact, search>>

\* The listener thread hands the next published fact to the projector.  The
\* agents subscribed beside it write none of the fields the bridge reads.
BridgeDeliver ==
    /\ queue # <<>>
    /\ \E e \in {FromDict(queue[1])} : Projected(e)
    /\ queue' = Tail(queue)
    /\ UNCHANGED <<storeVars, brokerVars, clockMs, agentVars, agentHistory, fanout,
                   externals, rebuild, lifecycleVars, clientVars>>

NextBridge ==
    \/ \E d \in AnalysisData : BridgeProject(d)
    \/ BridgeTask
    \/ BridgeReturn
    \/ BridgeDeliver

SpecBridge == Init /\ [][NextBridge]_vars

\* import_existing_projects_to_events of project_manager_event_bridge: the
\* project database holds project p1 with one or two tasks, each with or
\* without an assignee and a status

ImportSource == "project-manager-migration"

ImportTaskData ==
    {Pick([assignee |-> "alice", status |-> st], keys) :
        st \in {"pending", "completed"}, keys \in SUBSET {"assignee", "status"}}

ProjectDatabase ==
    {<<[id |-> "t1", data |-> g]>> : g \in ImportTaskData}
        \cup {<<[id |-> "t1", data |-> g], [id |-> "a", data |-> h]>> :
                 g \in ImportTaskData, h \in ImportTaskData}

\* The facts published for one task of the database; a description is
\* modelled by the task ids written in it, here none
ImportTaskFacts(project_id, task_id, data) ==
    LET subject == [taskId |-> task_id, projectId |-> project_id]
    IN <<Draft("TaskCreated", subject,
               [title |-> task_id, description |-> <<>>,
                assignee |-> Get(data, "assignee", None),
                status |-> "pending", createdAt |-> Now], 0)>>
       \o (IF Get(data, "status", "pending") # "pending"
           THEN <<Draft("TaskStatusChanged", subject,
                        [oldStatus |-> "pending", newStatus |-> data.status,
                         updatedAt |-> Now], 1)>>
           ELSE <<>>)

\* Event.__init__ for each draft of the import
Imported(drafts) ==
    [i \in 1..Len(drafts) |->
        NewEvent(FreshId(nextId + i - 1), 1, ImportSource, drafts[i].kind,
                 drafts[i].subject, drafts[i].payload,
                 IF drafts[i].cause = 0 THEN "none"
                 ELSE FreshId(nextId + drafts[i].cause - 1))]

\* import_existing_projects_to_events is called and publishes ProjectCreated
ImportProject(tasks) ==
    /\ bridge = <<>>
    /\ nextId = 1
    /\ bridge' = <<[project |-> "p1", todo |-> tasks]>>
    /\ BridgePublished(Imported(<<Draft("ProjectCreated", [projectId |-> "p1"],
                                        [name |-> "p1", description |-> "",
                                         createdAt |-> Now], 0)>>))

\* the loop over the tasks of the project handles the next one
ImportTask ==
    /\ bridge # <<>>
    /\ bridge[1].todo # <<>>
    /\ bridge' = <<[project |-> bridge[1].project, todo |-> Tail(bridge[1].todo)]>>
    /\ BridgePublished(Imported(ImportTaskFacts(bridge[1].project,
                                                Head(bridge[1].todo).id,
                                                Head(bridge[1].todo).data)))

\* The import beside the listener thread, which hands every fact to the
\* projector and the agents
NextImport ==
    \/ \E tasks \in ProjectDatabase : ImportProject(tasks)
    \/ ImportTask
    \/ BridgeReturn
    \/ InvokeProjector
    \/ InvokeProgressAgent
    \/ InvokeRelationAgent
    \/ \E order \in Orders : InvokeInsightAgent(order)

SpecImport == Init /\ [][NextImport]_vars

\* The two graph searches of the agents, one Python step at a time: the
\* cycle check of RelationAgent and the chain-length search of InsightAgent

SearchNodes == {"a", "b", "c"}

\* The adjacency maps searched: every set of edges between different nodes,
\* with or without the edge from a to itself; cycles included
SearchMaps ==
    {deps \in [SearchNodes -> SUBSET SearchNodes] :
        \A n \in SearchNodes \ {"a"} : n \notin deps[n]}

SeenNever(s, n) == FALSE

\* "if current_id in visited"
Seen(s, n) == n \in s.visited

\* "visited.add(current_id)", after which the body of dfs works on the node
Expanding(s, n) ==
    [s EXCEPT !.visited = @ \cup {n}, !.expanded = Append(@, n), !.call = <<>>]

\* dfs returns value to the frame that called it, or to the caller of the
\* search when there is none
Returned(s, frames, value) ==
    IF frames = <<>>
    THEN [s EXCEPT !.stack = <<>>, !.call = <<>>, !.result = <<value>>]
    ELSE [s EXCEPT !.call = <<>>,
                   !.stack = [frames EXCEPT ![Len(frames)].longest =
                                 IF value > @ THEN value ELSE @]]

\* _would_create_cycle(source, target) or _get_dependency_chain_length(task)
\* is called: dfs is about to be entered for the first node
SearchStart(kind, deps, source, first) ==
    /\ search = <<>>
    /\ search' = <<[kind |-> kind, deps |-> deps, source |-> source, stack |-> <<>>,
                    call |-> <<first>>, visited |-> {}, expanded |-> <<>>,
                    result |-> <<>>]>>
    /\ UNCHANGED <<storeVars, brokerVars, viewVars, agentVars, agentHistory, systemVars,
                   lifecycleVars, latest, fact, bridge>>

\* dfs(current_id) is entered: the tests before the loop.  In the cycle
\* check a True travels up through every frame (1 stands for True, 0 for
\* False).
SearchEnter ==
    /\ search # <<>>
    /\ search[1].call # <<>>
    /\ LET s == search[1]
           n == s.call[1]
       IN search' =
            IF s.kind = "cycle" /\ n = s.source
            THEN <<Returned(s, <<>>, 1)>>
            ELSE IF Seen(s, n)
            THEN <<Returned(s, s.stack, 0)>>
            ELSE IF s.kind = "chain" /\ s.deps[n] = {}
            THEN <<Returned(Expanding(s, n), s.stack, 1)>>
            ELSE <<[Expanding(s, n) EXCEPT
                       !.stack = Append(@, [node |-> n, todo |-> s.deps[n],
                                            longest |-> 0])]>>
    /\ UNCHANGED <<storeVars, brokerVars, viewVars, agentVars, agentHistory, systemVars,
                   lifecycleVars, latest, fact, bridge>>

\* the loop of the frame on top calls dfs for the next dependency, in the
\* order the set yields them
SearchNext(d) ==
    /\ search # <<>>
    /\ search[1].call = <<>>
    /\ search[1].stack # <<>>
    /\ LET s == search[1]
           top == s.stack[Len(s.stack)]
       IN /\ d \in top.todo
          /\ search' = <<[s EXCEPT !.call = <<d>>,
                                   !.stack[Len(s.stack)].todo = @ \ {d}]>>
    /\ UNCHANGED <<storeVars, brokerVars, viewVars, agentVars, agentHistory, systemVars,
                   lifecycleVars, latest, fact, bridge>>

\* the loop of the frame on top is exhausted: "return False" or "return
\* max_length + 1"
SearchLeave ==
    /\ search # <<>>
    /\ search[1].call = <<>>
    /\ search[1].stack # <<>>
    /\ LET s == search[1]
           top == s.stack[Len(s.stack)]
       IN /\ top.todo = {}
          /\ search' = <<Returned(s, SubSeq(s.stack, 1, Len(s.stack) - 1),
                                  IF s.kind = "cycle" THEN 0 ELSE top.longest + 1)>>
    /\ UNCHANGED <<storeVars, brokerVars, viewVars, agentVars, agentHistory, systemVars,
                   lifecycleVars, latest, fact, bridge>>

\* the caller has the result and goes on
SearchDone ==
    /\ search # <<>>
    /\ search[1].result # <<>>
    /\ search' = <<>>
    /\ UNCHANGED <<storeVars, brokerVars, viewVars, agentVars, agentHistory, systemVars,
                   lifecycleVars, latest, fact, bridge>>

SearchStep == SearchEnter \/ (\E d \in SearchNodes : SearchNext(d)) \/ SearchLeave

NextSearch ==
    \/ \E deps \in SearchMaps : \E source, target \in SearchNodes :
          SearchStart("cycle", deps, source, target)
    \/ \E deps \in SearchMaps : \E task \in SearchNodes :
          SearchStart("chain", deps, task, task)
    \/ SearchEnter
    \/ \E d \in SearchNodes : SearchNext(d)
    \/ SearchLeave
    \/ SearchDone

\* The searches run on the listener thread without waiting for anything
LiveSearch == Init /\ [][NextSearch]_vars /\ WF_vars(SearchStep)

\* FactStore.append called by both threads
NextStore ==
    \/ \E t \in Threads : \E e \in AllEvents : AppendCall(t, e)
    \/ \E t \in Threads : AppendExecute(t)
    \/ \E t \in Threads : AppendReturn(t)

SpecStore == Init /\ [][NextStore]_vars

\* ViewMaterializer handed the events of the kinds it subscribed to
NextView ==
    \/ \E e \in ProjectCreatedEvents : Applied(e)
    \/ \E e \in ProjectUpdatedEvents : Applied(e)
    \/ \E e \in TaskCreatedEvents : Applied(e)
    \/ \E e \in TaskUpdatedEvents : Applied(e)
    \/ \E e \in TaskStatusChangedEvents : Applied(e)
    \/ \E e \in ProjectProgressEvents : Applied(e)

SpecView == Init /\ [][NextView]_vars

\* ViewMaterializer handed DependencyAdded facts
NextDependencies == \E e \in DependencyAddedEvents : Applied(e)

SpecDependencies == Init /\ [][NextDependencies]_vars

\* ViewMaterializer handed InsightRaised facts while its clock advances
NextInsights ==
    \/ \E e \in InsightRaisedEvents : nInsights < MaxInsights /\ Applied(e)
    \/ Tick

SpecInsights == Init /\ [][NextInsights]_vars

\* ProgressAgent handed task facts
NextProgress == \E e \in ProgressInputs : ProgressAgentStep(e)

SpecProgress == Init /\ [][NextProgress]_vars

\* RelationAgent handed task facts
NextRelation == \E e \in RelationInputs : RelationAgentStep(e)

SpecRelation == Init /\ [][NextRelation]_vars

\* InsightAgent handed progress and dependency facts
NextInsightAgent ==
    \E e \in InsightInputs : \E order \in Orders : InsightAgentStep(e, order)

SpecInsightAgent == Init /\ [][NextInsightAgent]_vars

\* The assembled system
NextSystem ==
    \/ \E e \in SystemInputs : PublishExternal(e)
    \/ InvokeProjector
    \/ InvokeProgressAgent
    \/ InvokeRelationAgent
    \/ \E order \in Orders : InvokeInsightAgent(order)
    \/ Tick

SpecSystem == Init /\ [][NextSystem]_vars

\* The main thread publishes the task's creation, then its completion, then
\* the completion fact again and again
PublishScenario ==
    \E e \in SystemInputs :
        /\ e.id = IF externals = <<>> THEN "tc" ELSE "sc"
        /\ PublishExternal(e)

NextReplay ==
    \/ PublishScenario
    \/ InvokeProjector
    \/ InvokeProgressAgent
    \/ InvokeRelationAgent
    \/ \E order \in Orders : InvokeInsightAgent(order)
    \/ Tick

\* The replay scenario with a listener thread that keeps running: a callback
\* that can be called is called
LiveReplay == Init /\ [][NextReplay]_vars /\ WF_vars(Invoke)

\* The facts of a second scenario, in the order the main thread publishes
\* them: tasks c and b of project p1 are created, each description naming
\* another task (c names d, b names c), then b is completed, then the
\* description of a task a is changed to name b.
CascadeInputs ==
    <<NewEvent("x1", 1, "external", "TaskCreated", [taskId |-> "c", projectId |-> "p1"],
               [title |-> "T", description |-> <<"d">>, assignee |-> "alice",
                status |-> "pending", createdAt |-> "d1"], "none"),
      NewEvent("x2", 1, "external", "TaskCreated", [taskId |-> "b", projectId |-> "p1"],
               [title |-> "T", description |-> <<"c">>, assignee |-> "alice",
                status |-> "pending", createdAt |-> "d1"], "none"),
      NewEvent("x3", 1, "external", "TaskStatusChanged",
               [taskId |-> "b", projectId |-> "p1"],
               [oldStatus |-> "pending", newStatus |-> "completed", updatedAt |-> "d5"],
               "x2"),
      NewEvent("x4", 1, "external", "TaskUpdated", [taskId |-> "a", projectId |-> "p1"],
               [updates |-> [description |-> <<"b">>], updatedAt |-> "d3"], "none")>>

\* The main thread publishes the next fact of the scenario
PublishCascade ==
    /\ Len(externals) < Len(CascadeInputs)
    /\ PublishExternal(CascadeInputs[Len(externals) + 1])

NextCascade ==
    \/ PublishCascade
    \/ InvokeProjector
    \/ InvokeProgressAgent
    \/ InvokeRelationAgent
    \/ \E order \in Orders : InvokeInsightAgent(order)
    \/ Tick

\* The cascade scenario with a listener thread that keeps running
LiveCascade == Init /\ [][NextCascade]_vars /\ WF_vars(Invoke)

\* broker.publish returns False for every fact the agent hands it: the Redis
\* commands of FactStore.append raise, nothing is stored and nothing sent.
\* The agent does not look at the result.
AgentPublishFailed(name) ==
    /\ outbox' # <<>>
    /\ \E e \in {CurrentFact} : Handled(name, e)
    /\ queue' = Waiting
    /\ Advance
    /\ UNCHANGED <<storeVars, externals, rebuild, brokerVars, lifecycleVars, clientVars,
                   viewVars>>

\* RelationAgent.process_event while the store is failing
InvokeRelationAgentFailing ==
    /\ NextCallback = "relation"
    /\ \E e \in {CurrentFact} : RelationAgentProcess(e)
    /\ AgentPublishFailed("RelationAgent")
    /\ UNCHANGED <<project_tasks, project_progress, insight_dependencies, insights>>

\* InsightAgent.process_event while the store is failing
InvokeInsightAgentFailing(order) ==
    /\ NextCallback = "insight"
    /\ \E e \in {CurrentFact} : InsightAgentProcess(e, order)
    /\ AgentPublishFailed("InsightAgent")
    /\ UNCHANGED <<project_tasks, relation_dependencies>>

\* The scenario with a store that may fail while an agent publishes
NextOutage ==
    \/ NextCascade
    \/ InvokeRelationAgentFailing
    \/ \E order \in Orders : InvokeInsightAgentFailing(order)

SpecOutage == Init /\ [][NextOutage]_vars

\* The view database as one value
ViewState ==
    [projectHashes |-> projectHashes, projectsSet |-> projectsSet,
     taskHashes |-> taskHashes, projectTasks |-> projectTasks, tasksSet |-> tasksSet,
     dependencyHashes |-> dependencyHashes, taskDependencies |-> taskDependencies,
     taskDependents |-> taskDependents, insightHashes |-> insightHashes,
     projectInsights |-> projectInsights, insightsByTime |-> insightsByTime]

\* With nothing left to deliver, the live projection is set aside and a fresh
\* ViewMaterializer starts on an empty view database.
StartRebuild ==
    /\ rebuild = <<>>
    /\ externals # <<>>
    /\ queue = <<>> /\ fanout = <<>>
    /\ rebuild' = <<[live |-> ViewState, pos |-> 0]>>
    /\ projectHashes' = [q \in DOMAIN projectHashes |-> EmptyHash]
    /\ projectsSet' = {}
    /\ taskHashes' = [t \in DOMAIN taskHashes |-> EmptyHash]
    /\ projectTasks' = [q \in DOMAIN projectTasks |-> {}]
    /\ tasksSet' = {}
    /\ dependencyHashes' = EmptyHash
    /\ taskDependencies' = [t \in DOMAIN taskDependencies |-> {}]
    /\ taskDependents' = [t \in DOMAIN taskDependents |-> {}]
    /\ insightHashes' = EmptyHash
    /\ projectInsights' = [q \in DOMAIN projectInsights |-> {}]
    /\ insightsByTime' = EmptyHash
    /\ UNCHANGED <<clockMs, viewHistory, queue, fanout, externals>>
    /\ UNCHANGED <<storeVars, brokerVars, lifecycleVars, clientVars, agentVars, agentHistory>>

\* The fresh projector's handler is called with the next fact of the log, in
\* the order the facts were appended.
RebuildStep ==
    /\ rebuild # <<>>
    /\ rebuild[1].pos < Len(appendOrder)
    /\ \E e \in {FromDict(eventStore[appendOrder[rebuild[1].pos + 1]])} : Projected(e)
    /\ rebuild' = <<[rebuild[1] EXCEPT !.pos = @ + 1]>>
    /\ UNCHANGED <<clockMs, queue, fanout, externals>>
    /\ UNCHANGED <<storeVars, brokerVars, lifecycleVars, clientVars, agentVars, agentHistory>>

\* The assembled system, followed by a rebuild of the projection from the log
NextRebuild ==
    \/ \E e \in SystemInputs : rebuild = <<>> /\ PublishExternal(e)
    \/ rebuild = <<>> /\ InvokeProjector
    \/ rebuild = <<>> /\ InvokeProgressAgent
    \/ rebuild = <<>> /\ InvokeRelationAgent
    \/ \E order \in Orders : rebuild = <<>> /\ InvokeInsightAgent(order)
    \/ Tick
    \/ StartRebuild
    \/ RebuildStep

SpecRebuild == Init /\ [][NextRebuild]_vars

-----------------------------------------------------------------------------
(* Properties                                                               *)

\* The signature no longer matches the fields
Tampered(e) == e.sig # GenerateSignature(e)

NoDuplicates(seq) == \A i, j \in 1..Len(seq) : seq[i] = seq[j] => i = j

Occurrences(seq, x) == Cardinality({i \in 1..Len(seq) : seq[i] = x})

\* C1: write-ahead.  Every event a callback is invoked with, being fanned out
\* or waiting in the channel is stored in the FactStore under its id; a publish
\* whose append failed returns False without handing anything to the channel
\* or to a callback.
C1_FanOutAfterAppend ==
    /\ [](/\ \A i \in 1..Len(stack) : stack[i].event.id \in DOMAIN eventStore
          /\ cur # <<>> => cur[1].event.id \in DOMAIN eventStore
          /\ \A i \in 1..Len(channel) : channel[i].data.id \in DOMAIN eventStore)
    /\ [][\A t \in Threads :
            (pc[t] = "appended" /\ ~stored[t] /\ pc'[t] = "idle")
            => (ret'[t] = "false" /\ channel' = channel /\ cur' = cur /\ stack' = stack)]_vars

\* A callback holds a stored event while a publish of a tampered event has
\* returned False on the main thread.
C1_Witness ==
    /\ stack # <<>>
    /\ stack[1].event.id \in DOMAIN eventStore
    /\ ret["main"] = "false"

\* C2: append of an event whose signature differs from the digest of its
\* fields never reaches the write, returns False and leaves the id store and
\* the kind, time and project indexes as they were; no such event is stored.
C2_BadSignatureRefused ==
    /\ [](\A t \in Threads : (arg[t] # <<>> /\ Tampered(arg[t][1]))
                                => (pc[t] = "appended" /\ ~stored[t]))
    /\ [](\A i \in DOMAIN eventStore : ~Tampered(FromDict(eventStore[i])))
    /\ [][\A t \in Threads :
            (/\ pc'[t] # pc[t]
             /\ \/ arg[t] # <<>> /\ Tampered(arg[t][1])
                \/ arg'[t] # <<>> /\ Tampered(arg'[t][1]))
            => (/\ UNCHANGED storeVars
                /\ pc'[t] = "idle" => ret'[t] = "false")]_vars

\* An append of a tampered event has returned False.
C2_Witness ==
    \E t \in Threads : pc[t] = "idle" /\ ret[t] = "false" /\ nAppend > 0

\* C3: an append of a well-signed event whose id is stored when append is
\* called skips the write, returns True and leaves the id store and the three
\* indexes (hence the number of copies and of index entries) unchanged.
C3_AppendIdempotent ==
    /\ [][\A t \in Threads :
            (/\ pc[t] = "idle" /\ arg'[t] # <<>>
             /\ ~Tampered(arg'[t][1])
             /\ arg'[t][1].id \in DOMAIN eventStore)
            => (pc'[t] = "appended" /\ stored'[t] /\ UNCHANGED storeVars)]_vars
    /\ [][\A t \in Threads :
            (exists[t] /\ pc'[t] # pc[t])
            => (pc'[t] = "idle" /\ ret'[t] = "true" /\ UNCHANGED storeVars)]_vars

\* The event already stored is appended again and found to exist.
C3_Witness ==
    \E t \in Threads :
        /\ exists[t]
        /\ pc[t] = "appended"
        /\ eventStore[arg[t][1].id] = ToDict(arg[t][1])

\* C4: append-only.  Once an event is stored under an id, get_by_id returns
\* that same event in every later state.
C4_AppendOnly ==
    [][\A i \in DOMAIN eventStore :
          GetById(eventStore', i) = GetById(eventStore, i)]_vars

\* C5: no partial indexing.  In every state (a reader may look at any) each
\* stored event is in the set of its kind, in the time index and, when its
\* subject has a projectId, in the set of that project; and every id in an
\* index is a stored id.
C5_NoPartialIndexing ==
    /\ \A i \in DOMAIN eventStore :
          LET e == FromDict(eventStore[i]) IN
            /\ i \in kindIndex[e.kind]
            /\ i \in DOMAIN timeIndex
            /\ timeIndex[i] = e.ts
            /\ "projectId" \in DOMAIN e.subject => i \in projectIndex[e.subject.projectId]
    /\ \A k \in Kinds : kindIndex[k] \subseteq DOMAIN eventStore
    /\ DOMAIN timeIndex \subseteq DOMAIN eventStore
    /\ \A q \in Projects : projectIndex[q] \subseteq DOMAIN eventStore

\* An event with a projectId is stored while another append is between its
\* EXISTS and its EXEC.
C5_Witness ==
    /\ \E i \in DOMAIN eventStore : "projectId" \in DOMAIN eventStore[i].subject
    /\ \E t \in Threads : pc[t] = "checked"

C7_RaiseIsolated ==
    /\ [](cur # <<>> /\ ~cur[1].disturbed =>
             /\ cur[1].idx <= Len(subscribers[cur[1].event.kind])
             /\ cur[1].called = SubSeq(subscribers[cur[1].event.kind], 1, cur[1].idx))
    /\ [][(cur # <<>> /\ cur' = <<>>)
            => cur[1].idx >= Len(subscribers[cur[1].event.kind])]_vars
    /\ [][(stack # <<>> /\ stack' = <<>>)
            => (/\ channel' = channel
                /\ ret'["main"] = ret["main"]
                /\ pc' = pc
                /\ UNCHANGED storeVars)]_vars

\* The first callback of the kind raised and the second one is running for
\* the same event, whose publish had returned True.
C7_Witness ==
    /\ cur # <<>>
    /\ cur[1].raised
    /\ ~cur[1].disturbed
    /\ stack # <<>>
    /\ cur[1].called = <<"cb1", "cb2">>
    /\ ret["main"] = "true"

\* C8: subscribing a registered callback again adds nothing.  No list of
\* callbacks holds a callback twice, and a fan-out that no unsubscribe
\* disturbed has, when its list is exhausted, invoked every callback of the
\* list exactly once.
C8_NoDuplicateInvocation ==
    /\ \A k \in Kinds : NoDuplicates(subscribers[k])
    /\ (cur # <<>> /\ ~cur[1].disturbed) =>
          /\ NoDuplicates(cur[1].called)
          /\ cur[1].idx >= Len(subscribers[cur[1].event.kind]) =>
                \A cb \in Range(subscribers[cur[1].event.kind]) :
                    Occurrences(cur[1].called, cb) = 1

\* A callback was subscribed again while registered, and a fan-out of that
\* kind has gone through the whole list and invoked it.
C8_Witness ==
    /\ resubscribed # <<>>
    /\ cur # <<>>
    /\ ~cur[1].disturbed
    /\ stack = <<>>
    /\ cur[1].event.kind = resubscribed[1]
    /\ cur[1].idx >= Len(subscribers[cur[1].event.kind])
    /\ resubscribed[2] \in Range(cur[1].called)

\* C9: publish does not run callbacks.  The step in which publish returns
\* leaves the running callback and the fan-out as they are (a publish made
\* inside a handler returns to that handler); a callback is entered only while
\* no callback is running; the listener thread is inside publish only while it
\* is inside a handler; and while a handler runs, the events published meanwhile
\* wait in the channel.
C9_PublishDoesNotDeliver ==
    /\ [][\A t \in Threads :
            (pc[t] = "appended" /\ pc'[t] = "idle")
            => (stack' = stack /\ cur' = cur /\ lastSeq' = lastSeq)]_vars
    /\ [][(stack' # stack /\ stack' # <<>>) => (stack = <<>> /\ Len(stack') = 1)]_vars
    /\ [][(stack # <<>> /\ stack' # <<>>) => (cur'[1].event = cur[1].event
                                               /\ cur'[1].called = cur[1].called)]_vars
    /\ [](pc["listener"] # "idle" => Len(stack) = 1)

\* A publish made inside a handler has returned True to the handler, which is
\* still running, and the event it published waits in the channel.
C9_Witness ==
    /\ stack # <<>>
    /\ pc["listener"] = "idle"
    /\ ret["listener"] = "true"
    /\ channel # <<>>
    /\ channel[Len(channel)].data.source = "agent"

\* C10: a ProjectCreated or TaskCreated event handled for an id that has a
\* projection leaves that projection as it was.
C10_CreationKeepsExisting ==
    [][LET e == lastApplied'[1] IN
         /\ (/\ e.kind = "ProjectCreated"
             /\ "projectId" \in DOMAIN e.subject
             /\ projectHashes[e.subject.projectId] # EmptyHash)
            => projectHashes'[e.subject.projectId] = projectHashes[e.subject.projectId]
         /\ (/\ e.kind = "TaskCreated"
             /\ taskHashes[e.subject.taskId] # EmptyHash)
            => taskHashes'[e.subject.taskId] = taskHashes[e.subject.taskId]]_vars

\* The kinds that change an existing projection
UpdateKinds ==
    {"ProjectUpdated", "TaskUpdated", "TaskStatusChanged", "ProjectProgressCalculated"}

\* The projection the update fact e is aimed at
Target(e) ==
    IF e.kind \in {"ProjectUpdated", "ProjectProgressCalculated"}
    THEN projectHashes[e.subject.projectId]
    ELSE taskHashes[e.subject.taskId]

\* C11: an update, status or progress fact whose target projection does not
\* exist leaves every projection, set and index of the view as it was; a
\* Project or Task projection exists only if the projector was handed a
\* ProjectCreated or TaskCreated fact for that id.
C11_UpdateNeverCreates ==
    /\ [](/\ \A q \in ViewProjects :
                projectHashes[q] # EmptyHash => <<"project", q>> \in createdIds
          /\ \A t \in ViewTasks :
                taskHashes[t] # EmptyHash => <<"task", t>> \in createdIds)
    /\ [][lastApplied' # <<>> =>
            LET e == lastApplied'[1] IN
              (e.kind \in UpdateKinds /\ Target(e) = EmptyHash)
              => UNCHANGED <<projectVars, taskVars, dependencyVars, insightVars>>]_vars

\* A ProjectUpdated fact for p1 was handed over and dropped: p1 has no
\* projection although the task t1 of p1 has one.
C11_Witness ==
    /\ lastApplied # <<>>
    /\ lastApplied[1].kind = "ProjectUpdated"
    /\ lastApplied[1].subject.projectId = "p1"
    /\ projectHashes["p1"] = EmptyHash
    /\ taskHashes["t1"] # EmptyHash

\* The hash h2 is h with exactly the fields of "set" given their new values
\* and updatedAt given "stamp"
UpdatedExactly(h, h2, set, stamp) ==
    /\ DOMAIN h2 = DOMAIN h \cup DOMAIN set \cup {"updatedAt"}
    /\ \A f \in DOMAIN set : h2[f] = set[f]
    /\ h2["updatedAt"] = stamp
    /\ \A f \in DOMAIN h \ (DOMAIN set \cup {"updatedAt"}) : h2[f] = h[f]

C13_OneRowPerInsight ==
    /\ Cardinality(DOMAIN insightHashes) = nInsights
    /\ Cardinality(UNION {projectInsights[q] : q \in ViewProjects}) = nInsights
    /\ Cardinality(DOMAIN insightsByTime) = nInsights

\* C14: the dependencies and dependents sets mirror each other, every edge
\* has its record under the key of the ordered pair, and both queries return
\* that record.
C14_EdgesBothWays ==
    \A a \in DependencyTasks : \A b \in DependencyTasks :
        /\ (b \in taskDependencies[a]) <=> (a \in taskDependents[b])
        /\ b \in taskDependencies[a] =>
              /\ DependencyKey(a, b) \in DOMAIN dependencyHashes
              /\ dependencyHashes[DependencyKey(a, b)].sourceTaskId = a
              /\ dependencyHashes[DependencyKey(a, b)].targetTaskId = b
              /\ dependencyHashes[DependencyKey(a, b)] \in GetTaskDependencies(a)
              /\ dependencyHashes[DependencyKey(a, b)] \in GetTaskDependents(b)

\* DependencyAdded facts for t1 -> t2, t3 -> t2 and t2 -> t1 have been applied:
\* t2 has two dependents and is itself a dependent of t1.
C14_Witness ==
    /\ taskDependencies["t1"] = {"t2"}
    /\ taskDependents["t2"] = {"t1", "t3"}
    /\ taskDependents["t1"] = {"t2"}
    /\ Cardinality(GetTaskDependents("t2")) = 2

\* C15: each TaskCreated or TaskStatusChanged fact with its required fields
\* makes ProgressAgent publish one ProjectProgressCalculated fact for the
\* project, with totalTasks the number of tasks tracked, completedTasks the
\* number of them completed and progress = completedTasks / totalTasks * 100
\* (3 of 4 gives 75), so 0 <= progress <= 100, completedTasks <= totalTasks and
\* totalTasks >= 1; any other fact makes it publish nothing.
C15_ProgressArithmetic ==
    [][handled' # <<>> =>
         LET e == handled'[2]
             required ==
                 /\ e.kind \in {"TaskCreated", "TaskStatusChanged"}
                 /\ e.subject.projectId # None /\ e.subject.taskId # None
                 /\ e.kind = "TaskStatusChanged" => e.payload.newStatus \notin {None, ""}
         IN IF required
            THEN /\ Len(outbox') = 1
                 /\ LET f == outbox'[1]
                        tasks == project_tasks'[e.subject.projectId]
                        total == Cardinality(DOMAIN tasks)
                        completed == Cardinality({t \in DOMAIN tasks :
                                                     tasks[t] = "completed"})
                    IN /\ f.kind = "ProjectProgressCalculated"
                       /\ f.subject.projectId = e.subject.projectId
                       /\ f.payload.totalTasks = total
                       /\ f.payload.completedTasks = completed
                       /\ f.payload.progress.num * total
                             = 100 * completed * f.payload.progress.den
                       /\ (total = 4 /\ completed = 3)
                             => f.payload.progress.num = 75 * f.payload.progress.den
                       /\ 0 <= f.payload.progress.num
                       /\ f.payload.progress.num <= 100 * f.payload.progress.den
                       /\ completed <= total
                       /\ total >= 1
            ELSE outbox' = <<>>]_vars

\* ProgressAgent tracks four tasks of p1, three of them completed, and the
\* fact it just published says 3 of 4 and 75.
C15_Witness ==
    /\ handled # <<>>
    /\ handled[1] = "ProgressAgent"
    /\ Len(outbox) = 1
    /\ outbox[1].payload.totalTasks = 4
    /\ outbox[1].payload.completedTasks = 3
    /\ FloatRepr(outbox[1].payload.progress) = "75.0"

RECURSIVE ReachableFrom(_, _, _)

\* The tasks reached from the tasks of "frontier" along the edges of "deps"
ReachableFrom(deps, frontier, seen) ==
    IF frontier \subseteq seen
    THEN seen
    ELSE ReachableFrom(deps,
                       UNION {Get(deps, t, {}) : t \in frontier \ seen},
                       seen \cup frontier)

\* C16: the adjacency map of RelationAgent has no self-edge and no cycle; a
\* mentioned task that is the task itself, or from which the task is already
\* reached, gets no edge and no DependencyAdded fact; the edges recorded by an
\* invocation are the ones it published.
C16_AdjacencyAcyclic ==
    /\ [](\A t \in DOMAIN relation_dependencies :
             t \notin ReachableFrom(relation_dependencies,
                                    relation_dependencies[t], {}))
    /\ [][handled' # <<>> =>
            LET e == handled'[2]
                task == e.subject.taskId
                mentions == {Lower(DescriptionOf(e)[i]) :
                                i \in 1..Len(DescriptionOf(e))}
                before == Get(relation_dependencies, task, {})
                after == Get(relation_dependencies', task, {})
                published == {outbox'[i].subject.targetTaskId : i \in 1..Len(outbox')}
            IN /\ \A m \in mentions :
                     (m = task \/ task \in ReachableFrom(relation_dependencies, {m}, {}))
                     => (m \notin after /\ m \notin published)
               /\ after = before \cup published
               /\ \A i \in 1..Len(outbox') :
                     /\ outbox'[i].kind = "DependencyAdded"
                     /\ outbox'[i].subject.sourceTaskId = task]_vars

\* With task-a -> task-b and task-b -> task-c recorded, a fact for task-c that
\* mentions task-a was handled: nothing was published and task-c got no edge.
C16_Witness ==
    /\ handled # <<>>
    /\ handled[2].subject.taskId = "task-c"
    /\ DescriptionOf(handled[2]) = <<"task-a">>
    /\ "task-b" \in Get(relation_dependencies, "task-a", {})
    /\ "task-c" \in Get(relation_dependencies, "task-b", {})
    /\ "task-c" \notin DOMAIN relation_dependencies
    /\ outbox = <<>>

\* C17: InsightAgent has published at most one InsightRaised fact per dedup
\* key.
C17_OneInsightPerKey ==
    \A k \in DOMAIN emitted : emitted[k] <= 1

\* Progress 100 was received again for p1: nothing was published this time,
\* and the "nearly complete" insight for it had been published once.
C17_Witness ==
    /\ handled # <<>>
    /\ handled[2].kind = "ProjectProgressCalculated"
    /\ "progress" \in DOMAIN handled[2].payload
    /\ handled[2].payload.progress = Percent(1, 1)
    /\ outbox = <<>>
    /\ Get(emitted, "p1:Project is nearly complete (100.0%)", 0) = 1
    /\ Get(emitted, "a:dependency_chain", 0) = 1

\* C18: for the progress p last received for a project the candidate
\* insights are "approaching completion" iff 80 <= p < 90, "nearly complete"
\* iff 90 <= p and "just started" iff p <= 10, and nothing else.
C18_Thresholds ==
    \A q \in DOMAIN project_progress :
        LET p == project_progress[q]
            shown == "(" \o Format1f(p) \o "%)"
        IN {Candidates(p)[i] : i \in 1..Len(Candidates(p))}
           = {m \in {"Project is approaching completion " \o shown} :
                  80 * p.den <= p.num /\ p.num < 90 * p.den}
             \cup {m \in {"Project is nearly complete " \o shown} :
                  90 * p.den <= p.num /\ p.num <= 100 * p.den}
             \cup {m \in {"Project has just started " \o shown} :
                  0 <= p.num /\ p.num <= 10 * p.den}

\* Progress 89.5 was received for p1 and the one insight published for it is
\* "approaching completion".
C18_Witness ==
    /\ "p1" \in DOMAIN project_progress
    /\ project_progress["p1"] = Percent(179, 200)
    /\ Len(outbox) = 1
    /\ outbox[1].payload.message = "Project is approaching completion (89.5%)"

RECURSIVE SumOver(_, _)

\* The number of facts counted in the bag "emitted" under the keys "keys"
SumOver(bag, keys) ==
    IF keys = {}
    THEN 0
    ELSE LET k == CHOOSE x \in keys : TRUE
         IN Get(bag, k, 0) + SumOver(bag, keys \ {k})

\* The dedup keys of the "nearly complete" insights of project p1
NearlyCompleteKeys ==
    {InsightKey("p1", "Project is nearly complete (" \o Format1f(Percent(c, t)) \o "%)") :
        c \in 0..4, t \in 1..4}

\* The number of "nearly complete" InsightRaised facts published for p1
NearlyCompleteCount == SumOver(emitted, NearlyCompleteKeys)

\* tc was published and sc after it
CompletedAfterCreated ==
    \E i \in 1..Len(externals) : \E j \in (i + 1)..Len(externals) :
        externals[i] = "tc" /\ externals[j] = "sc"

\* C19: with TaskCreated(t1, p1) and then TaskStatusChanged(t1, completed)
\* published, ProgressAgent publishes progress 100 whenever it handles the
\* status change, a "nearly complete" insight for p1 comes to be published,
\* and never more than one is, however often the facts are published again.
C19_NearlyCompleteOnce ==
    /\ [](NearlyCompleteCount <= 1)
    /\ [][(/\ NextCallback = "progress"
           /\ CurrentFact.id = "sc"
           /\ fanout' # fanout)
          => (/\ Len(outbox') = 1
              /\ outbox'[1].kind = "ProjectProgressCalculated"
              /\ FloatRepr(outbox'[1].payload.progress) = "100.0")]_vars
    /\ CompletedAfterCreated ~> (NearlyCompleteCount = 1)

\* tc was published once and sc three times, every fact has been fanned out,
\* and one "nearly complete" insight was published.
C19_Witness ==
    /\ externals = <<"tc", "sc", "sc", "sc">>
    /\ queue = <<>>
    /\ fanout = <<>>
    /\ NearlyCompleteCount = 1

\* C20: once TaskCreated(t1, p1) alone has been published and every fact
\* that resulted has been fanned out, the projection of p1 exists and shows
\* progress 0.
C20_ProgressZeroShown ==
    (externals = <<"tc">> /\ queue = <<>> /\ fanout = <<>>)
    => /\ projectHashes["p1"] # EmptyHash
       /\ "progress" \in DOMAIN projectHashes["p1"]
       /\ projectHashes["p1"].progress = "0.0"

-----------------------------------------------------------------------------
(* Cascades                                                                 *)

\* nothing is waiting for the listener thread and no fan-out is in progress
Quiescent == queue = <<>> /\ fanout = <<>>

RECURSIVE Hops(_)

\* the number of agent-derived facts on the causedBy chain from the stored
\* fact "id" back to the external fact it started from
Hops(id) ==
    IF eventStore[id].source = "external"
    THEN 0
    ELSE IF eventStore[id].caused_by \notin DOMAIN eventStore
    THEN 1
    ELSE 1 + Hops(eventStore[id].caused_by)

\* C21: every stored fact is at most two derived hops away from an external
\* fact, no stored fact was caused by an InsightRaised fact, and once the main
\* thread has published its finitely many facts the system comes to rest with
\* nothing undelivered.
C21_CascadeBounded ==
    /\ [](\A id \in DOMAIN eventStore :
            /\ Hops(id) <= 2
            /\ \A parent \in DOMAIN eventStore :
                  eventStore[id].caused_by = parent
                  => eventStore[parent].kind # "InsightRaised")
    /\ <>[]Quiescent

\* at rest, with a two-hop chain through ProjectProgressCalculated and one
\* through DependencyAdded in the log
C21_Witness ==
    /\ Quiescent
    /\ \E i, j \in DOMAIN eventStore :
          /\ Hops(i) = 2 /\ Hops(j) = 2
          /\ eventStore[eventStore[i].caused_by].kind = "ProjectProgressCalculated"
          /\ eventStore[eventStore[j].caused_by].kind = "DependencyAdded"

\* the position of "id" in the order of appends (0 when it was never appended)
AppendedAt(id) ==
    IF id \in Range(appendOrder)
    THEN CHOOSE i \in 1..Len(appendOrder) : appendOrder[i] = id
    ELSE 0

\* the listener thread's step is the call of an agent's handler
AgentInvoked == NextCallback \in {"progress", "relation", "insight"} /\ fanout' # fanout

\* C30: every fact an agent hands to publish names the fact being handled as
\* its cause, that fact is in the log when the agent is called, and every
\* stored fact of an agent has its cause stored and appended before it.
C30_CausedByStoredParent ==
    /\ [][AgentInvoked =>
            \A i \in 1..Len(outbox') :
                /\ outbox'[i].caused_by = CurrentFact.id
                /\ CurrentFact.id \in DOMAIN eventStore
                /\ outbox'[i].id \notin DOMAIN eventStore
                /\ outbox'[i].id \in DOMAIN eventStore']_vars
    /\ [](\A id \in DOMAIN eventStore :
            eventStore[id].source # "external"
            => /\ eventStore[id].caused_by \in DOMAIN eventStore
               /\ 0 < AppendedAt(eventStore[id].caused_by)
               /\ AppendedAt(eventStore[id].caused_by) < AppendedAt(id))

\* a fact of each of the three agents is in the log
C30_Witness ==
    \A name \in {"ProgressAgent", "RelationAgent", "InsightAgent"} :
        \E id \in DOMAIN eventStore :
            /\ eventStore[id].source = name
            /\ eventStore[id].caused_by \in DOMAIN eventStore

-----------------------------------------------------------------------------
(* Redelivery                                                               *)

\* the derived state the three agents keep
AgentState ==
    <<project_tasks, relation_dependencies, project_progress, insight_dependencies,
      insights>>

\* C22: when an agent is handed the fact it handled last once more and its
\* derived state stays as it was, the agent hands nothing to publish.
C22_RedeliveryPublishesNothing ==
    [][(handled # <<>> /\ handled' = handled /\ AgentState' = AgentState)
       => outbox' = <<>>]_vars

-----------------------------------------------------------------------------
(* Rebuilding the projection                                                *)

\* every fact of the log has been applied to the fresh projector
Rebuilt == rebuild # <<>> /\ rebuild[1].pos = Len(appendOrder)

\* C23: the projection rebuilt from the log on an empty view database equals
\* the projection live delivery had reached: the same projects, tasks,
\* dependencies and insights with the same field values.
C23_RebuildEqualsLive == Rebuilt => ViewState = rebuild[1].live
\* C24: under any sequence of initialize, start and stop calls the lifecycle
\* state changes only along Uninitialized -> Initialized -> Running ->
\* Stopped; between calls the handler is registered for each declared kind
\* exactly while the agent is Running; start on a Running agent changes
\* neither the agent nor the registry.
LifecycleChain ==
    {<<"Uninitialized", "Initialized">>, <<"Initialized", "Running">>,
     <<"Running", "Stopped">>}

C24_LifecycleChain ==
    /\ [][lifecycle' # lifecycle => <<lifecycle, lifecycle'>> \in LifecycleChain]_vars
    /\ [](agentPc = "idle" =>
            \A i \in 1..Len(AgentKinds) :
                Registered(AgentKinds[i]) <=> lifecycle = "Running")
    /\ [][(lifecycle = "Running" /\ AgentStartCall) =>
            /\ lifecycleVars' = lifecycleVars
            /\ registryVars' = registryVars]_vars

\* C25: while the agent is stopped (stop has returned and start has not been
\* called again) no step of the listener enters the agent's handler, so no
\* fan-out beginning then reaches it and it publishes nothing for such a
\* fact; and the steps of stop leave an invocation in flight, and the
\* publish it is making, as they are.
StoppedIdle == lifecycle = "Stopped" /\ agentPc = "idle"

HandlerOnStack == \E i \in 1..Len(stack) : stack[i].cb = AgentCallback

C25_NoDispatchAfterStop ==
    /\ [][(stack' # stack /\ stack' # <<>> /\ Len(stack') > Len(stack)
            /\ stack'[Len(stack')].cb = AgentCallback) => ~StoppedIdle]_vars
    /\ [][(cur = <<>> /\ cur' # <<>> /\ StoppedIdle) =>
            \A k \in Kinds : AgentCallback \notin Range(subscribers'[k])]_vars
    /\ [][(AgentStopCall \/ AgentStopUnsubscribe \/ AgentStopReturn) =>
            /\ stack' = stack
            /\ pc' = pc
            /\ arg' = arg
            /\ channel' = channel]_vars

\* An invocation of the handler is still in flight, publishing, after stop
\* has returned
C25_Witness ==
    StoppedIdle /\ HandlerOnStack /\ pc["listener"] = "checked"


\* C26: after any sequence of appends get_latest(k) returns min(k, n) of the
\* n stored facts, in descending order of timestamp, and no stored fact left
\* out has a greater timestamp than one returned.
GreatestDescending(k) ==
    LET r == GetLatest(k)
        n == Cardinality(DOMAIN eventStore)
        returned == {r[i].id : i \in 1..Len(r)}
    IN /\ Len(r) = (IF k < n THEN k ELSE n)
       /\ Cardinality(returned) = Len(r)
       /\ returned \subseteq DOMAIN eventStore
       /\ \A i, j \in 1..Len(r) : i < j => r[i].ts >= r[j].ts
       /\ \A id \in DOMAIN eventStore \ returned :
            \A i \in 1..Len(r) : eventStore[id].ts <= r[i].ts

C26_LatestGreatest == \A k \in 0..MaxLimit : GreatestDescending(k)

\* C27: among stored facts of equal timestamp get_latest keeps the order in
\* which they entered the time index (first in first, or last in first, but
\* one of the two throughout).
TiedPairs(r) ==
    {p \in (1..Len(r)) \X (1..Len(r)) : p[1] < p[2] /\ r[p[1]].ts = r[p[2]].ts}

C27_TiesByInsertion ==
    LET r == GetLatest(MaxLimit) IN
    \/ \A p \in TiedPairs(r) : AppendedAt(r[p[1]].id) < AppendedAt(r[p[2]].id)
    \/ \A p \in TiedPairs(r) : AppendedAt(r[p[1]].id) > AppendedAt(r[p[2]].id)


\* C28: verify_integrity() is true of a fact as constructed, and false once
\* any of id, ts, source, kind, subject, payload, caused_by holds another
\* value than at construction while sig is the one computed then.
ChangedFields(f) == {n \in SignedFields : f.held[n] # f.built[n]}

C28_VerifyDetectsChange ==
    fact # <<>> =>
        /\ VerifyIntegrity(fact[1].built)
        /\ fact[1].held.sig = fact[1].built.sig
        /\ VerifyIntegrity(fact[1].held) <=> ChangedFields(fact[1]) = {}

\* A fact of which only the payload was changed
C28_Witness ==
    /\ fact # <<>>
    /\ ChangedFields(fact[1]) = {"payload"}
    /\ ~VerifyIntegrity(fact[1].held)


\* C29: for the project or task the bridge handled last, it published a
\* creation fact if and only if it found no projection under the derived
\* id; otherwise an update fact whose payload holds exactly the incoming
\* fields whose value differs from the projection read, and no update fact
\* when none differs.
BridgeCreationKinds == {"ProjectCreated", "TaskCreated"}
BridgeUpdateKinds == {"ProjectUpdated", "TaskUpdated"}

OfKinds(facts, kinds) == SelectSeq(facts, LAMBDA e : e.kind \in kinds)

\* creation iff no projection, and an update fact with exactly the fields
\* "differing" when there are any
DecidesBy(item, differing) ==
    /\ OfKinds(outbox, BridgeCreationKinds) # <<>> <=> item.existing = EmptyHash
    /\ Len(OfKinds(outbox, BridgeCreationKinds)) <= 1
    /\ item.existing = EmptyHash => OfKinds(outbox, BridgeUpdateKinds) = <<>>
    /\ item.existing # EmptyHash =>
         IF differing = {}
         THEN OfKinds(outbox, BridgeUpdateKinds) = <<>>
         ELSE /\ Len(OfKinds(outbox, BridgeUpdateKinds)) = 1
              /\ OfKinds(outbox, BridgeUpdateKinds)[1].payload.updates =
                    Pick(item.data, differing)

Differing(item) ==
    {f \in DOMAIN item.data : item.data[f] # Get(item.existing, f, None)}

C29_ExactlyDiffering ==
    bridge # <<>> => DecidesBy(bridge[1].item, Differing(bridge[1].item))

\* C29 as the code has it: the update fact holds exactly the fields, among
\* description and status of a project and description and assignee of a
\* task, whose incoming value is non-empty and differs from the projection
\* read; there is no update fact when there is no such field.
ComparedFields(type) ==
    IF type = "project" THEN {"description", "status"} ELSE {"description", "assignee"}

DifferingNonEmpty(item) ==
    {f \in Differing(item) \cap ComparedFields(item.type) : item.data[f] # ""}

C29_NonEmptyDiffering ==
    bridge # <<>> => DecidesBy(bridge[1].item, DifferingNonEmpty(bridge[1].item))

\* The bridge met a projection, and an incoming field that differs from it
\* was left out of the update it published
C29_Witness ==
    /\ bridge # <<>>
    /\ bridge[1].item.existing # EmptyHash
    /\ OfKinds(outbox, BridgeUpdateKinds) # <<>>
    /\ DifferingNonEmpty(bridge[1].item) # Differing(bridge[1].item)


\* The tasks reached from t along the edges of deps in 1 to n steps
RECURSIVE Within(_, _, _)
Within(deps, from, n) ==
    IF n = 0
    THEN {}
    ELSE LET next == UNION {Get(deps, x, {}) : x \in from}
         IN next \cup Within(deps, next, n - 1)

Nodes(deps) == DOMAIN deps \cup UNION {deps[x] : x \in DOMAIN deps}

Acyclic(deps) ==
    \A t \in Nodes(deps) : t \notin Within(deps, {t}, Cardinality(Nodes(deps)))

\* The number of nodes on the longest path of an acyclic map starting at t
RECURSIVE LongestFrom(_, _)
LongestFrom(deps, t) ==
    IF Get(deps, t, {}) = {}
    THEN 1
    ELSE LET below == {LongestFrom(deps, d) : d \in deps[t]}
         IN 1 + CHOOSE m \in below : \A x \in below : x <= m

\* C31: on an acyclic adjacency map _get_dependency_chain_length(t) is the
\* number of nodes on the longest dependency path starting at t, in
\* whichever order the dependencies of a task are visited.
C31_ChainLengthIsLongestPath ==
    Acyclic(insight_dependencies) =>
        \A t \in ChainTasks : \A order \in Orders :
            GetDependencyChainLength(insight_dependencies, t, order) =
                LongestFrom(insight_dependencies, t)


\* C32: both searches terminate on every finite adjacency map, cyclic ones
\* included, and no node is expanded twice in one search.
Searching == search # <<>> /\ search[1].result = <<>>

C32_SearchTerminates ==
    /\ [](search # <<>> =>
            \A i, j \in 1..Len(search[1].expanded) :
                i # j => search[1].expanded[i] # search[1].expanded[j])
    /\ Searching ~> ~Searching

\* Both searches have returned from a map with a cycle through all its nodes
C32_Witness ==
    /\ search # <<>>
    /\ search[1].result # <<>>
    /\ search[1].deps = [n \in SearchNodes |->
                            IF n = "a" THEN {"b"} ELSE IF n = "b" THEN {"c"} ELSE {"a"}]
    /\ Len(search[1].expanded) = 3


\* C33: when the agent's handler is unsubscribed while a fact is being
\* fanned out, the other callback of the kind, registered before the
\* fan-out began and still registered when it ends, has been invoked with
\* the fact exactly once.
TimesCalled(c, cb) == Len(SelectSeq(c.called, LAMBDA x : x = cb))

C33_FanoutReachesRemaining ==
    [][(/\ cur # <<>>
        /\ cur' = <<>>
        /\ "cb2" \in Range(subscribers[cur[1].event.kind]))
       => TimesCalled(cur[1], "cb2") = 1]_vars


\* C34: a fact a callback is invoked with has the kind, subject, payload,
\* timestamp and caused_by of the fact stored in the log under its id.
SameContent(e, d) ==
    /\ e.kind = d.kind
    /\ e.subject = d.subject
    /\ e.payload = d.payload
    /\ e.ts = d.ts
    /\ e.caused_by = d.caused_by

C34_DeliveredEqualsStored ==
    \A i \in 1..Len(stack) :
        /\ stack[i].event.id \in DOMAIN eventStore
        /\ SameContent(stack[i].event, eventStore[stack[i].event.id])


\* C35: over repeated runs of the bridge on the same analysis data the log
\* holds at most one ProjectCreated fact per project id and at most one
\* TaskCreated fact per task id; runs on the same data build the same
\* creation payload.
CreatedAlike(d) ==
    {id \in DOMAIN eventStore :
        /\ eventStore[id].kind = d.kind
        /\ eventStore[id].subject = d.subject
        /\ eventStore[id].payload = d.payload}

C35_CreatedOnce ==
    \A id \in DOMAIN eventStore :
        eventStore[id].kind \in {"ProjectCreated", "TaskCreated"} =>
            Cardinality(CreatedAlike(eventStore[id])) = 1

\* C36: every edge of RelationAgent's adjacency map has a stored
\* DependencyAdded fact and every key of InsightAgent's dedup set a stored
\* InsightRaised fact, also after a publish that returned failure.
C36_RecordedOnlyIfStored ==
    /\ \A s \in DOMAIN relation_dependencies : \A t \in relation_dependencies[s] :
          \E id \in DOMAIN eventStore :
              /\ eventStore[id].kind = "DependencyAdded"
              /\ eventStore[id].subject = [sourceTaskId |-> s, targetTaskId |-> t]
    /\ \A key \in insights :
          \E id \in DOMAIN eventStore :
              /\ eventStore[id].kind = "InsightRaised"
              /\ KeyOf(eventStore[id]) = key


\* the TaskStatusChanged facts the bridge publishes right after the
\* TaskCreated fact that caused them, as the projector was last handed them
CausedStatusChanges ==
    {lastApplied[i] : i \in {j \in DOMAIN lastApplied :
        /\ lastApplied[j].kind = "TaskStatusChanged"
        /\ lastApplied[j].caused_by \in DOMAIN eventStore}}

ShowsStatus(f) == Get(GetTask(f.subject.taskId), "status", None) = f.payload.newStatus

\* C37: when the projector has been handed the TaskStatusChanged fact of a
\* task the bridge created with a non-pending status, the Task projection
\* shows that status: the fact is not dropped for want of the projection its
\* TaskCreated fact writes.
C37_CreatedStatusShown == \A f \in CausedStatusChanges : ShowsStatus(f)

\* the same for the tasks whose TaskCreated fact names an assignee
StatusShownWhenAssigned ==
    \A f \in CausedStatusChanges :
        eventStore[f.caused_by].payload.assignee # None => ShowsStatus(f)

\* the Task projections registered under project p
TasksUnder(p) == projectTasks[p]

CompletedUnder(p) ==
    {t \in TasksUnder(p) : Get(GetTask(t), "status", None) = "completed"}

\* C38: once every published fact has been delivered, a Project projection
\* that carries progress counts has totalTasks equal to the number of Task
\* projections under the project and completedTasks equal to the number of
\* those that are completed.
C38_CountsMatchTaskView ==
    Quiescent =>
        \A p \in DOMAIN projectHashes :
            "totalTasks" \in DOMAIN GetProject(p) =>
                /\ GetProject(p).totalTasks = ToString(Cardinality(TasksUnder(p)))
                /\ GetProject(p).completedTasks = ToString(Cardinality(CompletedUnder(p)))

\* the same when every TaskCreated fact of the log names an assignee
CountsMatchWhenAssigned ==
    (\A id \in DOMAIN eventStore :
        eventStore[id].kind = "TaskCreated" => eventStore[id].payload.assignee # None)
    => C38_CountsMatchTaskView

\* C39: a TaskCreated fact with taskId and projectId that the projector was
\* handed leaves a Task projection for that taskId, registered under its
\* project, whether or not the fact names an assignee.
C39_TaskCreatedProjected ==
    \A i \in DOMAIN lastApplied :
        LET e == lastApplied[i] IN
        /\ e.kind = "TaskCreated"
        /\ Truthy(Get(e.subject, "taskId", None))
        /\ Truthy(Get(e.subject, "projectId", None))
        => /\ ~Missing(taskHashes[e.subject.taskId])
           /\ e.subject.taskId \in projectTasks[e.subject.projectId]
           /\ e.subject.taskId \in tasksSet

====
